---------------------------- MODULE Spec2Model ----------------------------
(***************************************************************************)
(* A model of the smart-glass monitor of NEV_daily                         *)
(* (src/smart_glass_monitor.py): the content cleaner, the URL-keyed store  *)
(* and the search/collect loop of run_daily_check, together with the       *)
(* caller collect_smart_glass_intel of src/generate_daily_news.py.         *)
(*                                                                         *)
(* The text the cleaner works on is a sequence of Unicode code points;     *)
(* every other string is a TLA+ string, its non-ASCII characters written   *)
(* as \uXXXX escapes.  Python's None is the reserved token None; a         *)
(* dictionary key that is missing is the reserved token Absent.            *)
(***************************************************************************)
EXTENDS Integers, Sequences, FiniteSets, TLC

(***************************************************************************)
(* Bounds of the model.                                                    *)
(***************************************************************************)
\* the longest input of the cleaner, in parts of CleanParts
MaxParts == 3
\* the most results one search response carries
MaxResults == 2
\* the most results the search service returns in one run, over all queries
MaxRunResults == 2
\* the clock runs from 0 to MaxClock seconds
MaxClock == 2
\* seconds per day of the model's calendar (scaled down from 86400)
SecPerDay == 2
\* the most competitors a configuration file lists
MaxCompetitors == 1
None == "<None>"
Absent == "<absent>"

(***************************************************************************)
(* Text helpers.                                                           *)
(***************************************************************************)
\* Python truthiness of an optional string: None and "" are falsy
Truthy(v) == v # None /\ v # Absent /\ v # ""

\* re.IGNORECASE on the characters of the model's alphabet: A-Z fold to a-z
Fold(c) == IF c >= 65 /\ c <= 90 THEN c + 32 ELSE c

\* \s of a str pattern, and str.strip(): the Unicode whitespace characters
IsSpace(c) ==
    c \in {9, 10, 11, 12, 13, 28, 29, 30, 31, 32, 133, 160, 5760,
           8232, 8233, 8239, 8287, 12288} \/ (c >= 8192 /\ c <= 8202)

\* the literal lit occurs in s at position i, ignoring case
LitAt(lit, s, i) ==
    /\ i + Len(lit) - 1 <= Len(s)
    /\ \A k \in 1..Len(lit) : Fold(s[i + k - 1]) = Fold(lit[k])

\* the first position >= i of s holding a newline, Len(s)+1 if there is none:
\* "." matches every character but "\n"
LineEnd(s, i) ==
    LET nl == {j \in i..Len(s) : s[j] = 10}
    IN IF nl = {} THEN Len(s) + 1 ELSE CHOOSE j \in nl : \A k \in nl : j <= k

(***************************************************************************)
(* noise_patterns, each of the form  pre  or  pre.*post                    *)
(***************************************************************************)
noise_patterns ==
    << [pre |-> <<68, 111, 119, 110, 108, 111, 97, 100>>,
        star |-> TRUE, post |-> <<80, 68, 70>>],          \* Download.*PDF
       [pre |-> <<82, 101, 97, 100, 32, 109, 111, 114, 101>>,
        star |-> FALSE, post |-> <<>>],                   \* Read more
       [pre |-> <<67, 108, 105, 99, 107, 32, 104, 101, 114, 101>>,
        star |-> FALSE, post |-> <<>>],                   \* Click here
       [pre |-> <<83, 117, 98, 115, 99, 114, 105, 98, 101>>,
        star |-> FALSE, post |-> <<>>],                   \* Subscribe
       [pre |-> <<83, 105, 103, 110, 32, 117, 112>>,
        star |-> FALSE, post |-> <<>>],                   \* Sign up
       [pre |-> <<76, 111, 103, 105, 110>>,
        star |-> FALSE, post |-> <<>>],                   \* Login
       [pre |-> <<82, 101, 103, 105, 115, 116, 101, 114>>,
        star |-> FALSE, post |-> <<>>],                   \* Register
       [pre |-> <<42, 32, 20998, 21106>>,
        star |-> TRUE, post |-> <<>>],                    \* \* U+5206 U+5272 .*
       [pre |-> <<19979, 36733, 20813, 36153, 26679, 21697>>,
        star |-> TRUE, post |-> <<>>],                    \* (download free sample).*
       [pre |-> <<65, 110, 32, 73, 110, 102, 111, 103, 114, 97, 112, 104, 105,
                  99, 32, 82, 101, 112, 114, 101, 115, 101, 110, 116, 97, 116,
                  105, 111, 110>>,
        star |-> TRUE, post |-> <<>>] >>                  \* An Infographic Representation.*

\* The end (exclusive) of the match of pattern p that starts at position i of
\* s, 0 if p does not match there.  ".*" is greedy and stays on the line.
MatchEnd(p, s, i) ==
    IF ~LitAt(p.pre, s, i) THEN 0
    ELSE IF ~p.star THEN i + Len(p.pre)
    ELSE LET a == i + Len(p.pre)
             e == LineEnd(s, a)
             c == {j \in a..e : j + Len(p.post) <= e /\ LitAt(p.post, s, j)}
         IN IF c = {} THEN 0
            ELSE (CHOOSE j \in c : \A k \in c : k <= j) + Len(p.post)

\* re.sub(p, "", s): the leftmost non-overlapping matches removed, one pass
RECURSIVE SubFrom(_, _, _)
SubFrom(p, s, i) ==
    IF i > Len(s) THEN <<>>
    ELSE LET e == MatchEnd(p, s, i)
         IN IF e > 0 THEN SubFrom(p, s, e)
            ELSE <<s[i]>> \o SubFrom(p, s, i + 1)

re_sub_noise(p, s) == SubFrom(p, s, 1)

\* for p in noise_patterns: cleaned = re.sub(p, "", cleaned)
RECURSIVE RemoveNoise(_, _)
RemoveNoise(k, s) ==
    IF k > Len(noise_patterns) THEN s
    ELSE RemoveNoise(k + 1, re_sub_noise(noise_patterns[k], s))

\* re.sub(r"\s+", " ", s): every run of whitespace becomes one space
RECURSIVE CollapseFrom(_, _)
CollapseFrom(s, i) ==
    IF i > Len(s) THEN <<>>
    ELSE IF IsSpace(s[i])
         THEN IF i > 1 /\ IsSpace(s[i - 1]) THEN CollapseFrom(s, i + 1)
              ELSE <<32>> \o CollapseFrom(s, i + 1)
         ELSE <<s[i]>> \o CollapseFrom(s, i + 1)

\* a collapse that leaves every run of whitespace as it is
SpaceRunsKept(s) == s

re_sub_space(s) == CollapseFrom(s, 1)

\* str.strip()
strip(s) ==
    LET ns == {i \in 1..Len(s) : ~IsSpace(s[i])}
    IN IF ns = {} THEN <<>>
       ELSE SubSeq(s, CHOOSE i \in ns : \A k \in ns : i <= k,
                      CHOOSE j \in ns : \A k \in ns : k <= j)

(***************************************************************************)
(* Mojibake repair: content.encode('latin-1').decode('utf-8')              *)
(***************************************************************************)
\* encode('latin-1') raises when a character is above U+00FF
Latin1Encodable(s) == \A i \in 1..Len(s) : s[i] <= 255

IsCont(b) == b >= 128 /\ b <= 191

\* The length of the well-formed UTF-8 sequence starting at byte i of b, 0 if
\* the bytes there are not well-formed (strict decoding, as Python's).
Utf8Len(b, i) ==
    LET n  == Len(b)
        b0 == b[i]
        c1 == IF i + 1 <= n THEN b[i + 1] ELSE 0
        c2 == IF i + 2 <= n THEN b[i + 2] ELSE 0
        c3 == IF i + 3 <= n THEN b[i + 3] ELSE 0
    IN IF b0 <= 127 THEN 1
       ELSE IF b0 >= 194 /\ b0 <= 223 THEN (IF IsCont(c1) THEN 2 ELSE 0)
       ELSE IF b0 >= 224 /\ b0 <= 239
            THEN (IF /\ IsCont(c1) /\ IsCont(c2)
                     /\ (b0 = 224 => c1 >= 160)
                     /\ (b0 = 237 => c1 <= 159)
                  THEN 3 ELSE 0)
       ELSE IF b0 >= 240 /\ b0 <= 244
            THEN (IF /\ IsCont(c1) /\ IsCont(c2) /\ IsCont(c3)
                     /\ (b0 = 240 => c1 >= 144)
                     /\ (b0 = 244 => c1 <= 143)
                  THEN 4 ELSE 0)
       ELSE 0

\* the code point of the well-formed sequence of length n at byte i
Utf8Char(b, i, n) ==
    IF n = 1 THEN b[i]
    ELSE IF n = 2 THEN (b[i] - 192) * 64 + (b[i + 1] - 128)
    ELSE IF n = 3 THEN (b[i] - 224) * 4096 + (b[i + 1] - 128) * 64
                       + (b[i + 2] - 128)
    ELSE (b[i] - 240) * 262144 + (b[i + 1] - 128) * 4096
         + (b[i + 2] - 128) * 64 + (b[i + 3] - 128)

RECURSIVE Utf8Valid(_, _)
Utf8Valid(b, i) ==
    IF i > Len(b) THEN TRUE
    ELSE LET n == Utf8Len(b, i)
         IN n > 0 /\ Utf8Valid(b, i + n)

RECURSIVE Utf8Decode(_, _)
Utf8Decode(b, i) ==
    IF i > Len(b) THEN <<>>
    ELSE LET n == Utf8Len(b, i)
         IN <<Utf8Char(b, i, n)>> \o Utf8Decode(b, i + n)

\* "é" in content or "å" in content or "ä" in content
LooksMojibake(s) == \E i \in 1..Len(s) : s[i] \in {233, 229, 228}

\* a repair that gives up the text when the attempt fails
FixEncodingDropping(s) ==
    IF ~LooksMojibake(s) THEN s
    ELSE IF Latin1Encodable(s) /\ Utf8Valid(s, 1) THEN Utf8Decode(s, 1)
    ELSE <<>>

\* the try/except of the repair: the decoded text, or the text as it was
FixEncoding(s) ==
    IF LooksMojibake(s) /\ Latin1Encodable(s) /\ Utf8Valid(s, 1)
    THEN Utf8Decode(s, 1)
    ELSE s

(***************************************************************************)
(* _clean_content                                                          *)
(***************************************************************************)
_clean_content(content) ==
    IF content = <<>> THEN <<>>
    ELSE strip(re_sub_space(RemoveNoise(1, FixEncoding(content))))

(***************************************************************************)
(* The clock: datetime.now() in whole seconds, and its two formats.        *)
(***************************************************************************)
\* strftime("%Y-%m-%d"): the calendar days of the model
DayStr == <<"2025-01-01", "2025-01-02", "2025-01-03", "2025-01-04",
            "2025-01-05", "2025-01-06">>

strftime_date(t) == DayStr[(t \div SecPerDay) + 1]

\* strftime("%Y-%m-%d %H:%M:%S"): the day and the second of the day; strings
\* of this format compare as these pairs do
strftime_datetime(t) == <<t \div SecPerDay, t % SecPerDay>>

\* a <= b for two strings of the datetime format ("" is the least string)
StrLeq(a, b) ==
    \/ a = <<>>
    \/ /\ b # <<>>
       /\ (a[1] < b[1] \/ (a[1] = b[1] /\ a[2] <= b[2]))

(***************************************************************************)
(* The files: smart_glass_config.json and smart_glass_db.json.             *)
(***************************************************************************)
\* {"name": "View", "category": "EC"}
Competitors == { [name |-> "View", category |-> "EC"] }

\* the non-empty lists a configuration file may hold; a file with no
\* competitors loads to the same self.config.get("competitors", []) as no file
CompetitorLists ==
    UNION { [1..n -> Competitors] : n \in 1..MaxCompetitors }

ConfigFiles ==
    {[kind |-> "missing", competitors |-> <<>>],
     [kind |-> "malformed", competitors |-> <<>>]}
    \cup {[kind |-> "ok", competitors |-> c] : c \in CompetitorLists}

EmptyDb == [items |-> <<>>, last_update |-> <<>>]

\* an item stored by an earlier run
OldItem ==
    [url |-> "https://x.com/a", title |-> "Original", content |-> <<111, 108, 100>>,
     published_date |-> "2024-12-31", fetched_at |-> <<0, 0>>,
     category |-> "Industry", competitor |-> None,
     tags |-> <<"PDLC">>, score |-> 1]

DbFiles ==
    {[kind |-> "missing", doc |-> EmptyDb],
     [kind |-> "malformed", doc |-> EmptyDb],
     [kind |-> "ok", doc |-> [items |-> <<OldItem>>, last_update |-> <<0, 0>>]]}

\* _load_config: json.load raises on a malformed file; {} when there is none
_load_config(f) ==
    IF f.kind = "malformed" THEN [raised |-> TRUE, competitors |-> <<>>]
    ELSE [raised |-> FALSE, competitors |-> f.competitors]

\* The silent reset that _load_db does not do.
LoadDbResetting(f) ==
    IF f.kind = "ok" THEN [raised |-> FALSE, db |-> f.doc]
    ELSE [raised |-> FALSE, db |-> EmptyDb]

\* _load_db: the document of the file, an empty store when there is no file;
\* json.load raises on a malformed file
_load_db(f) ==
    IF f.kind = "missing" THEN [raised |-> FALSE, db |-> EmptyDb]
    ELSE IF f.kind = "malformed" THEN [raised |-> TRUE, db |-> EmptyDb]
    ELSE [raised |-> FALSE, db |-> f.doc]

\* _save_db: last_update is stamped and the whole document written
_save_db(d, t) == [d EXCEPT !.last_update = strftime_datetime(t)]

(***************************************************************************)
(* Search results, as the search service returns them.                     *)
(***************************************************************************)
\* "Read  more now": the two words of a noise phrase two spaces apart
NoisyText == <<82, 101, 97, 100, 32, 32, 109, 111, 114, 101, 32, 110, 111, 119>>
\* "Login PDLC"
PlainText == <<76, 111, 103, 105, 110, 32, 80, 68, 76, 67>>

RawResults ==
    { [url |-> "https://x.com/a", title |-> "A1", content |-> NoisyText,
       published_date |-> "2024-12-30", score |-> <<9>>],
      [url |-> "https://x.com/a", title |-> "A2", content |-> <<>>,
       published_date |-> Absent, score |-> <<>>],
      [url |-> "https://x.com/b", title |-> "B1", content |-> PlainText,
       published_date |-> None, score |-> <<>>],
      [url |-> "https://x.com/b", title |-> Absent, content |-> <<>>,
       published_date |-> "", score |-> <<5>>],
      [url |-> Absent, title |-> "N", content |-> PlainText,
       published_date |-> Absent, score |-> <<>>],
      [url |-> "", title |-> "E", content |-> <<>>,
       published_date |-> "2024-12-30", score |-> <<>>] }

ResultLists == UNION { [1..n -> RawResults] : n \in 0..MaxResults }

\* dict.get(key): None for a missing key
Get(v) == IF v = Absent THEN None ELSE v

(***************************************************************************)
(* _tavily_search                                                          *)
(***************************************************************************)
\* What requests.post and response.json() can do: raise while sending, answer
\* with a status, and carry a body that does not decode, that is no JSON
\* object, or that is an object whose "results" is missing, null or a list.
Responses ==
    {[sent |-> FALSE, status |-> 0, body |-> "none", results |-> <<>>]}
    \cup {[sent |-> TRUE, status |-> s, body |-> "none", results |-> <<>>] :
            s \in {401, 429, 500}}
    \cup {[sent |-> TRUE, status |-> 200, body |-> b, results |-> <<>>] :
            b \in {"undecodable", "not_object", "no_results_key", "results_null"}}
    \cup {[sent |-> TRUE, status |-> 200, body |-> "results_list", results |-> l] :
            l \in ResultLists}

\* a transport error: an exception while sending, or a status other than 200
TransportError(r) == ~r.sent \/ r.status # 200

\* _tavily_search without its last line: only the 200 branch returns a value.
SearchWithoutFallback(r) ==
    IF r.sent /\ r.status = 200 /\ r.body = "results_list"
    THEN [is_list |-> TRUE, list |-> r.results]
    ELSE [is_list |-> FALSE, list |-> <<>>]

\* The value returned: a list, or None where is_list is FALSE.
_tavily_search(r) ==
    IF ~r.sent THEN [is_list |-> TRUE, list |-> <<>>]           \* except: return []
    ELSE IF r.status # 200 THEN [is_list |-> TRUE, list |-> <<>>]
    ELSE IF r.body \in {"undecodable", "not_object"}
         THEN [is_list |-> TRUE, list |-> <<>>]                 \* raised in the try
    ELSE IF r.body = "no_results_key" THEN [is_list |-> TRUE, list |-> <<>>]
    ELSE IF r.body = "results_null" THEN [is_list |-> FALSE, list |-> <<>>]
    ELSE [is_list |-> TRUE, list |-> r.results]

(***************************************************************************)
(* _add_to_db                                                              *)
(***************************************************************************)
\* new_entry of _add_to_db, built at time t
NewEntry(item, category, competitor, tags, t) ==
    [url |-> Get(item.url),
     title |-> Get(item.title),
     content |-> item.content,
     published_date |-> IF item.published_date = Absent
                        THEN strftime_date(t) ELSE item.published_date,
     fetched_at |-> strftime_datetime(t),
     category |-> category,
     competitor |-> competitor,
     tags |-> tags,
     score |-> IF item.score = <<>> THEN 0 ELSE item.score[1]]

\* self.db["items"].insert(0, new_entry)
PrependEntry(items, e) == <<e>> \o items

\* self.db["items"].append(new_entry)
AppendEntry(items, e) == Append(items, e)

\* a scan that never finds the URL
ExistsNever(items, url) == FALSE

\* for existing in self.db["items"]: if existing["url"] == url
Exists(items, url) == \E i \in 1..Len(items) : items[i].url = url

\* _add_to_db without "if not url: return False"
AddSkippingUrlCheck(items, item, category, competitor, tags, t) ==
    LET url == Get(item.url)
    IN IF Exists(items, url) THEN [ret |-> FALSE, items |-> items]
       ELSE [ret |-> TRUE,
             items |-> AppendEntry(items,
                          NewEntry(item, category, competitor, tags, t))]

\* _add_to_db refreshing the stored item when the URL is already there
AddOverwriting(items, item, category, competitor, tags, t) ==
    LET url == Get(item.url)
    IN IF ~Truthy(url) THEN [ret |-> FALSE, items |-> items]
       ELSE IF Exists(items, url)
       THEN [ret |-> FALSE,
             items |-> [i \in 1..Len(items) |->
                          IF items[i].url = url
                          THEN NewEntry(item, category, competitor, tags, t)
                          ELSE items[i]]]
       ELSE [ret |-> TRUE,
             items |-> AppendEntry(items,
                          NewEntry(item, category, competitor, tags, t))]

\* The value returned and the items afterwards.  tags is a list, <<>> for
\* None too (tags or []).
_add_to_db(items, item, category, competitor, tags, t) ==
    LET url == Get(item.url)
    IN IF ~Truthy(url) THEN [ret |-> FALSE, items |-> items]
       ELSE IF Exists(items, url) THEN [ret |-> FALSE, items |-> items]
       ELSE [ret |-> TRUE,
             items |-> AppendEntry(items,
                          NewEntry(item, category, competitor, tags, t))]

(***************************************************************************)
(* run_daily_check: the prepared queries                                   *)
(***************************************************************************)
industry_keywords ==
    << "\\u667a\\u80fd\\u8c03\\u5149\\u73bb\\u7483",
       "\\u7535\\u81f4\\u53d8\\u8272",
       "PDLC",
       "SPD\\u73bb\\u7483",
       "\\u5149\\u81f4\\u53d8\\u8272",
       "Smart Glass Market",
       "Electrochromic Glass",
       "Switchable Glass" >>

\* the four query suffixes of the f-strings
SuffixCompetitorZh == " \\u667a\\u80fd\\u8c03\\u5149 \\u65b0\\u95fb"
SuffixCompetitorEn == " smart glass news"
SuffixIndustryZh == " \\u884c\\u4e1a\\u65b0\\u95fb 2025"
SuffixIndustryEn == " market trends 2025"

\* 1. Competitor Specific Queries: two per competitor
CompetitorQueries(competitors) ==
    [k \in 1..(2 * Len(competitors)) |->
        LET c == competitors[(k + 1) \div 2]
        IN [q |-> c.name \o (IF k % 2 = 1 THEN SuffixCompetitorZh
                             ELSE SuffixCompetitorEn),
            cat |-> "Competitor", comp |-> c.name, tag |-> c.category]]

\* one query per keyword only
IndustryQueriesOnePerKeyword ==
    [k \in 1..Len(industry_keywords) |->
        [q |-> industry_keywords[k] \o SuffixIndustryZh,
         cat |-> "Industry", comp |-> None, tag |-> industry_keywords[k]]]

\* 2. Industry Wide Queries: two per keyword; query_obj.get("comp") is None
IndustryQueries ==
    [k \in 1..(2 * Len(industry_keywords)) |->
        LET kw == industry_keywords[(k + 1) \div 2]
        IN [q |-> kw \o (IF k % 2 = 1 THEN SuffixIndustryZh
                         ELSE SuffixIndustryEn),
            cat |-> "Industry", comp |-> None, tag |-> kw]]

\* the prepared queries with the industry queries first
IndustryQueriesFirst(competitors) ==
    IndustryQueries \o CompetitorQueries(competitors)

search_queries(competitors) == CompetitorQueries(competitors) \o IndustryQueries

(***************************************************************************)
(* get_report_data                                                         *)
(***************************************************************************)
\* "sorted_items[:20]"
ReportLimit == 20

\* the place of items[i] in a sort by fetched_at that puts the oldest first
OldestFirst(items, i) ==
    1 + Cardinality({j \in 1..Len(items) :
            \/ ~StrLeq(items[i].fetched_at, items[j].fetched_at)
            \/ /\ items[j].fetched_at = items[i].fetched_at
               /\ j < i})

\* the place of items[i] in sorted(items, key=fetched_at, reverse=True):
\* newer items first, items of one fetched_at in their stored order (the
\* sort is stable, also when reversed)
NewestFirst(items, i) ==
    1 + Cardinality({j \in 1..Len(items) :
            \/ ~StrLeq(items[j].fetched_at, items[i].fetched_at)
            \/ /\ items[j].fetched_at = items[i].fetched_at
               /\ j < i})

\* sorted() builds a new list: db["items"] is left as it is
sorted_items(items) ==
    [k \in 1..Len(items) |->
        items[CHOOSE i \in 1..Len(items) : NewestFirst(items, i) = k]]

get_report_data(d) ==
    LET all == sorted_items(d.items)
        recent_items == SubSeq(all, 1, IF Len(all) < ReportLimit THEN Len(all)
                                       ELSE ReportLimit)
    IN [returned |-> TRUE,
        competitor_news |->
            SelectSeq(recent_items, LAMBDA x : x.category = "Competitor"),
        industry_news |->
            SelectSeq(recent_items, LAMBDA x : x.category = "Industry"),
        stats |-> [total_tracked |-> Len(d.items),
                   last_update |-> d.last_update]]

(***************************************************************************)
(* generate_daily_news.py: DailyNewsGenerator._analyze_content.  Texts are *)
(* sequences of code points, as in the cleaner.                            *)
(***************************************************************************)
\* str.lower(), on ASCII and Latin-1 letters; the other characters of the
\* model's texts have no case
lower(s) ==
    [i \in 1..Len(s) |->
        IF (s[i] >= 65 /\ s[i] <= 90)
              \/ (s[i] >= 192 /\ s[i] <= 222 /\ s[i] # 215)
        THEN s[i] + 32 ELSE s[i]]

\* sub in s
In(sub, s) ==
    \E i \in 1..(Len(s) - Len(sub) + 1) : SubSeq(s, i, i + Len(sub) - 1) = sub

\* \w of a str pattern: letters, digits and the underscore (ASCII, Latin-1
\* and the CJK unified ideographs)
IsWord(c) ==
    \/ c >= 48 /\ c <= 57
    \/ c >= 65 /\ c <= 90
    \/ c = 95
    \/ c >= 97 /\ c <= 122
    \/ c \in {170, 178, 179, 181, 185, 186, 188, 189, 190}
    \/ c >= 192 /\ c <= 255 /\ c # 215 /\ c # 247
    \/ c >= 19968 /\ c <= 40959

IsUpper(c) == c >= 65 /\ c <= 90

IsLower(c) == c >= 97 /\ c <= 122

\* emoji_map, in the order of its declaration (a dict iterates in insertion
\* order); keys and values as code points
emoji_map ==
    << [key |-> <<109, 97, 114, 107, 101, 116>>, value |-> <<128202>>],  \* "market"
       [key |-> <<103, 114, 111, 119, 116, 104>>, value |-> <<128200>>],  \* "growth"
       [key |-> <<102, 111, 114, 101, 99, 97, 115, 116>>, value |-> <<128302>>],  \* "forecast"
       [key |-> <<114, 101, 112, 111, 114, 116>>, value |-> <<128209>>],  \* "report"
       [key |-> <<103, 108, 97, 115, 115>>, value |-> <<129695>>],  \* "glass"
       [key |-> <<115, 109, 97, 114, 116>>, value |-> <<129504>>],  \* "smart"
       [key |-> <<116, 101, 99, 104>>, value |-> <<128187>>],  \* "tech"
       [key |-> <<97, 105>>, value |-> <<129302>>],  \* "ai"
       [key |-> <<99, 97, 114>>, value |-> <<128663>>],  \* "car"
       [key |-> <<97, 117, 116, 111>>, value |-> <<128665>>],  \* "auto"
       [key |-> <<105, 110, 118, 101, 115, 116>>, value |-> <<128176>>],  \* "invest"
       [key |-> <<112, 97, 116, 101, 110, 116>>, value |-> <<128220>>],  \* "patent"
       [key |-> <<108, 97, 117, 110, 99, 104>>, value |-> <<128640>>],  \* "launch"
       [key |-> <<110, 101, 119>>, value |-> <<127381>>],  \* "new"
       [key |-> <<116, 114, 101, 110, 100>>, value |-> <<128201>>],  \* "trend"
       [key |-> <<103, 101, 110, 116, 101, 120>>, value |-> <<127970>>],  \* "gentex"
       [key |-> <<118, 105, 101, 119>>, value |-> <<127970>>],  \* "view"
       [key |-> <<98, 111, 101>>, value |-> <<128421, 65039>>],  \* "boe"
       [key |-> <<119, 105, 99, 117, 101>>, value |-> <<128374, 65039>>],  \* "wicue"
       [key |-> <<24066, 22330>>, value |-> <<128202>>],  \* U+5E02 U+573A
       [key |-> <<22686, 38271>>, value |-> <<128200>>],  \* U+589E U+957F
       [key |-> <<39044, 27979>>, value |-> <<128302>>],  \* U+9884 U+6D4B
       [key |-> <<25253, 21578>>, value |-> <<128209>>],  \* U+62A5 U+544A
       [key |-> <<29627, 29827>>, value |-> <<129695>>],  \* U+73BB U+7483
       [key |-> <<26234, 33021>>, value |-> <<129504>>],  \* U+667A U+80FD
       [key |-> <<25216, 26415>>, value |-> <<128187>>],  \* U+6280 U+672F
       [key |-> <<27773, 36710>>, value |-> <<128663>>],  \* U+6C7D U+8F66
       [key |-> <<25237, 36164>>, value |-> <<128176>>],  \* U+6295 U+8D44
       [key |-> <<19987, 21033>>, value |-> <<128220>>],  \* U+4E13 U+5229
       [key |-> <<21457, 24067>>, value |-> <<128640>>],  \* U+53D1 U+5E03
       [key |-> <<36235, 21183>>, value |-> <<128201>>],  \* U+8D8B U+52BF
       [key |-> <<25307, 32856>>, value |-> <<128101>>],  \* U+62DB U+8058
       [key |-> <<106, 111, 98>>, value |-> <<128101>>],  \* "job"
       [key |-> <<20140, 19996, 26041>>, value |-> <<128421, 65039>>],  \* U+4EAC U+4E1C U+65B9
       [key |-> <<21807, 37239>>, value |-> <<128374, 65039>>] >>  \* U+552F U+9177

\* selected_emoji before the scan: U+1F4F0
default_emoji == <<128240>>

\* target_keywords of _analyze_content
target_keywords ==
    << <<24066, 22330, 35268, 27169>>,  \* U+5E02 U+573A U+89C4 U+6A21
       <<22686, 38271>>,  \* U+589E U+957F
       <<26234, 33021, 30524, 38236>>,  \* U+667A U+80FD U+773C U+955C
       <<30005, 33268, 21464, 33394>>,  \* U+7535 U+81F4 U+53D8 U+8272
       <<71, 111, 111, 103, 108, 101>>,  \* "Google"
       <<65, 73>>,  \* "AI"
       <<25237, 34701, 36164>>,  \* U+6295 U+878D U+8D44
       <<25307, 32856>>,  \* U+62DB U+8058
       <<19987, 21033>>,  \* U+4E13 U+5229
       <<36235, 21183>>,  \* U+8D8B U+52BF
       <<39044, 27979>>,  \* U+9884 U+6D4B
       <<69, 67>>,  \* "EC"
       <<80, 68, 76, 67>>,  \* "PDLC"
       <<83, 80, 68>>,  \* "SPD"
       <<76, 67>>,  \* "LC"
       <<83, 109, 97, 114, 116, 32, 71, 108, 97, 115, 115>>,  \* "Smart Glass"
       <<77, 97, 114, 107, 101, 116, 32, 83, 105, 122, 101>>,  \* "Market Size"
       <<71, 114, 111, 119, 116, 104>>,  \* "Growth"
       <<83, 109, 97, 114, 116, 32, 71, 108, 97, 115, 115, 101, 115>>,  \* "Smart Glasses"
       <<69, 108, 101, 99, 116, 114, 111, 99, 104, 114, 111, 109, 105, 99>>,  \* "Electrochromic"
       <<80, 97, 116, 101, 110, 116>>,  \* "Patent"
       <<73, 110, 118, 101, 115, 116, 109, 101, 110, 116>>,  \* "Investment"
       <<84, 114, 101, 110, 100>>,  \* "Trend"
       <<70, 111, 114, 101, 99, 97, 115, 116>>,  \* "Forecast"
       <<82, 101, 99, 114, 117, 105, 116, 109, 101, 110, 116>>,  \* "Recruitment"
       <<82, 101, 118, 101, 110, 117, 101>>,  \* "Revenue"
       <<83, 97, 108, 101, 115>>,  \* "Sales"
       <<80, 97, 114, 116, 110, 101, 114, 115, 104, 105, 112>>,  \* "Partnership"
       <<67, 111, 108, 108, 97, 98, 111, 114, 97, 116, 105, 111, 110>>,  \* "Collaboration"
       <<65, 119, 97, 114, 100>>,  \* "Award"
       <<73, 110, 110, 111, 118, 97, 116, 105, 111, 110>> >>  \* "Innovation"

\* keywords of _summarize_text
keywords ==
    << <<24066, 22330>>,  \* U+5E02 U+573A
       <<22686, 38271>>,  \* U+589E U+957F
       <<33829, 25910>>,  \* U+8425 U+6536
       <<21457, 24067>>,  \* U+53D1 U+5E03
       <<25512, 20986>>,  \* U+63A8 U+51FA
       <<38144, 37327>>,  \* U+9500 U+91CF
       <<21033, 28070>>,  \* U+5229 U+6DA6
       <<21516, 27604>>,  \* U+540C U+6BD4
       <<29615, 27604>>,  \* U+73AF U+6BD4
       <<25216, 26415>>,  \* U+6280 U+672F
       <<19987, 21033>>,  \* U+4E13 U+5229
       <<25237, 36164>> >>  \* U+6295 U+8D44

\* a scan of emoji_map that does not stop at the first key found: the last
\* key found decides
RECURSIVE SelectEmojiNoBreak(_, _)
SelectEmojiNoBreak(k, full_text) ==
    IF k > Len(emoji_map) THEN default_emoji
    ELSE LET later == SelectEmojiNoBreak(k + 1, full_text)
         IN IF later # default_emoji THEN later
            ELSE IF In(emoji_map[k].key, full_text) THEN emoji_map[k].value
            ELSE default_emoji

\* the scan of emoji_map: the value of the first key found in full_text
RECURSIVE SelectEmoji(_, _)
SelectEmoji(k, full_text) ==
    IF k > Len(emoji_map) THEN default_emoji
    ELSE IF In(emoji_map[k].key, full_text) THEN emoji_map[k].value
    ELSE SelectEmoji(k + 1, full_text)

\* found_keywords[:5], and the length at which every stage stops
MaxKeywords == 5

\* len(m) > 3 of the capitalised words
MinCapLen == 3

\* len(w_clean) > 2 of the title tokens
MinTokenLen == 2

\* a membership test that never finds x
MemberNever(x, found) == FALSE

\* x in found_keywords
Member(x, found) == \E i \in 1..Len(found) : found[i] = x

\* stage 1: the target keywords whose lower case occurs in full_text, in
\* the order of target_keywords
RECURSIVE TargetStage(_, _, _)
TargetStage(k, full_text, found) ==
    IF k > Len(target_keywords) \/ Len(found) >= MaxKeywords THEN found
    ELSE TargetStage(k + 1, full_text,
                     IF In(lower(target_keywords[k]), full_text)
                     THEN Append(found, target_keywords[k]) ELSE found)

\* the elements of a set of positions, ascending
SortedSeq(S) ==
    [k \in 1..Cardinality(S) |->
        CHOOSE x \in S : Cardinality({y \in S : y < x}) = k - 1]

\* the last position of the run of lower-case letters that begins at i: the
\* greedy [a-z]+
LowerRunLast(s, i) ==
    CHOOSE j \in i..Len(s) :
        /\ \A k \in i..j : IsLower(s[k])
        /\ j = Len(s) \/ ~IsLower(s[j + 1])

\* re.findall(r'\b[A-Z][a-z]+\b', s): a capital letter after a word
\* boundary, then every lower-case letter that follows, then a word
\* boundary; two matches cannot overlap
CapWordAt(s, i) ==
    /\ IsUpper(s[i])
    /\ i = 1 \/ ~IsWord(s[i - 1])
    /\ i < Len(s) /\ IsLower(s[i + 1])
    /\ LET j == LowerRunLast(s, i + 1)
       IN j = Len(s) \/ ~IsWord(s[j + 1])

FindCapWords(s) ==
    LET at == SortedSeq({i \in 1..Len(s) : CapWordAt(s, i)})
    IN [k \in 1..Len(at) |-> SubSeq(s, at[k], LowerRunLast(s, at[k] + 1))]

\* stage 2 and stage 3: the candidates longer than min that are not found
\* yet, until MaxKeywords are found
RECURSIVE FillFrom(_, _, _)
FillFrom(cands, min, found) ==
    IF cands = <<>> \/ Len(found) >= MaxKeywords THEN found
    ELSE FillFrom(Tail(cands), min,
                  IF ~Member(Head(cands), found) /\ Len(Head(cands)) > min
                  THEN Append(found, Head(cands)) ELSE found)

\* the last position of the run of characters other than whitespace that
\* begins at i
TokenLast(s, i) ==
    CHOOSE j \in i..Len(s) :
        /\ \A k \in i..j : ~IsSpace(s[k])
        /\ j = Len(s) \/ IsSpace(s[j + 1])

\* str.split(): the maximal runs of characters that are not whitespace
split(s) ==
    LET at == SortedSeq({i \in 1..Len(s) :
                            ~IsSpace(s[i]) /\ (i = 1 \/ IsSpace(s[i - 1]))})
    IN [k \in 1..Len(at) |-> SubSeq(s, at[k], TokenLast(s, at[k]))]

\* re.sub(r'[^\w]', '', w)
StripNonWord(w) == SelectSeq(w, IsWord)

\* the three stages of keyword extraction
CapitalisedStage(title, found) ==
    IF Len(found) < MaxKeywords
    THEN FillFrom(FindCapWords(title), MinCapLen, found)
    ELSE found

TokenStage(title, found) ==
    IF Len(found) < MaxKeywords
    THEN LET words == split(title)
         IN FillFrom([i \in 1..Len(words) |-> StripNonWord(words[i])],
                     MinTokenLen, found)
    ELSE found

\* an extraction whose title-token stage runs before its capitalised-word
\* stage
ExtractKeywordsTokensFirst(title, full_text) ==
    LET found_keywords ==
            CapitalisedStage(title,
                TokenStage(title, TargetStage(1, full_text, <<>>)))
    IN SubSeq(found_keywords, 1,
              IF Len(found_keywords) < MaxKeywords THEN Len(found_keywords)
              ELSE MaxKeywords)

ExtractKeywords(title, full_text) ==
    LET found_keywords ==
            TokenStage(title,
                CapitalisedStage(title, TargetStage(1, full_text, <<>>)))
    IN SubSeq(found_keywords, 1,
              IF Len(found_keywords) < MaxKeywords THEN Len(found_keywords)
              ELSE MaxKeywords)

(***************************************************************************)
(* generate_daily_news.py: DailyNewsGenerator._summarize_text.  The call   *)
(* of the translation service is an input: it raises, or it returns a text.*)
(***************************************************************************)
\* "if len(text) < 10: return text"
ShortText == 10

\* "if len(text) > 4000: text = text[:4000]"
TranslateLimit == 4000

\* "len(s.strip()) > 10" of a sentence
MinSentence == 10

\* "scored[:3]"
TopCount == 3

\* the characters that end a sentence: U+3002, U+FF01, U+FF1F, ".", "!", "?"
SentenceEnd == {12290, 65281, 65311, 46, 33, 63}

\* '\u4e00' <= x <= '\u9fff'
IsChinese(c) == c >= 19968 /\ c <= 40959

\* chinese_chars < len(text) * 0.1 (the product is exact for the lengths up
\* to TranslateLimit)
NeedsTranslation(text) ==
    10 * Cardinality({i \in 1..Len(text) : IsChinese(text[i])}) < Len(text)

\* the try block: truncation, then self.client.translator.translate(text);
\* an exception is caught and leaves text as the block had it so far
Translated(text, tr) ==
    LET cut == IF Len(text) > TranslateLimit
               THEN SubSeq(text, 1, TranslateLimit) ELSE text
    IN IF tr.raised THEN cut
       ELSE IF tr.same THEN cut
       ELSE tr.text

\* re.split(r'(?<=[<sentence end>])\s+|\n+', s) cuts s at every separator:
\* a whole run of whitespace that follows a sentence end, or else a run of
\* newlines.  The character at i belongs to a separator:
Separator(s, i) ==
    \/ \E r \in 2..i : /\ s[r - 1] \in SentenceEnd
                       /\ \A k \in r..i : IsSpace(s[k])
    \/ s[i] = 10

\* the pieces between the separators that are not empty (two separators
\* never touch: only the first and the last piece can be empty, and the
\* filter that follows drops them)
SplitSentences(s) ==
    LET body == {i \in 1..Len(s) : ~Separator(s, i)}
        at == SortedSeq({i \in body : i = 1 \/ Separator(s, i - 1)})
    IN [k \in 1..Len(at) |->
           SubSeq(s, at[k],
                  CHOOSE j \in at[k]..Len(s) :
                      /\ \A n \in at[k]..j : n \in body
                      /\ j = Len(s) \/ Separator(s, j + 1))]

\* [s.strip() for s in sentences if len(s.strip()) > 10]
Sentences(text) ==
    LET pieces == SplitSentences(text)
        stripped == [i \in 1..Len(pieces) |-> strip(pieces[i])]
    IN SelectSeq(stripped, LAMBDA p : Len(p) > MinSentence)

\* a score that does not look at the keywords
ScoreWithoutKeywords(i, s) ==
    (IF i = 1 THEN 5 ELSE 0)
    + (IF Len(s) >= 20 /\ Len(s) <= 100 THEN 1 ELSE 0)

\* the score of the sentence at index i (from 1): 5 for the first, 2 for
\* every keyword it holds, 1 for a length of 20 to 100
Score(i, s) ==
    (IF i = 1 THEN 5 ELSE 0)
    + 2 * Cardinality({k \in 1..Len(keywords) : In(keywords[k], s)})
    + (IF Len(s) >= 20 /\ Len(s) <= 100 THEN 1 ELSE 0)

\* a sort that leaves the sentences where they are, whatever their scores
RankByPosition(scores, i) == i

\* the place of sentence i after scored.sort(key=score, reverse=True): the
\* sort is stable, sentences of one score keep their order
Rank(scores, i) ==
    1 + Cardinality({j \in 1..Len(scores) :
                        \/ scores[j] > scores[i]
                        \/ scores[j] = scores[i] /\ j < i})

\* scored[:3] as the first sort left it: the indices of the chosen sentences
\* from the highest score down
TopItemsByScore(scores) ==
    LET chosen == {i \in 1..Len(scores) : Rank(scores, i) <= TopCount}
    IN [k \in 1..Cardinality(chosen) |->
           CHOOSE i \in chosen : Rank(scores, i) = k]

\* scored[:3] sorted by index again: the indices of the chosen sentences,
\* ascending
TopItems(scores) ==
    SortedSeq({i \in 1..Len(scores) : Rank(scores, i) <= TopCount})

ul_open ==
    <<60, 117, 108, 32, 115, 116, 121, 108, 101, 61, 39, 109, 97, 114, 103,
      105, 110, 58, 48, 46, 53, 114, 101, 109, 32, 48, 32, 48, 46, 53, 114,
      101, 109, 32, 49, 46, 50, 114, 101, 109, 59, 32, 112, 97, 100, 100,
      105, 110, 103, 58, 48, 59, 32, 108, 105, 115, 116, 45, 115, 116, 121,
      108, 101, 45, 116, 121, 112, 101, 58, 32, 100, 105, 115, 99, 59, 39,
      62>>

\* </ul>
ul_close ==
    <<60, 47, 117, 108, 62>>

li_open ==
    <<60, 108, 105, 32, 115, 116, 121, 108, 101, 61, 39, 109, 97, 114, 103,
      105, 110, 45, 98, 111, 116, 116, 111, 109, 58, 48, 46, 50, 53, 114,
      101, 109, 59, 32, 99, 111, 108, 111, 114, 58, 118, 97, 114, 40, 45,
      45, 116, 101, 120, 116, 45, 115, 101, 99, 111, 110, 100, 97, 114,
      121, 41, 59, 32, 102, 111, 110, 116, 45, 115, 105, 122, 101, 58, 48,
      46, 56, 53, 114, 101, 109, 59, 39, 62>>

\* </li>
li_close ==
    <<60, 47, 108, 105, 62>>

\* one list item: the sentence, closed by U+3002 when it does not end with
\* a sentence end
ListItem(s) ==
    li_open
    \o (IF s # <<>> /\ s[Len(s)] \notin SentenceEnd THEN Append(s, 12290)
        ELSE s)
    \o li_close

RECURSIVE ListItems(_, _, _)
ListItems(sentences, top, k) ==
    IF k > Len(top) THEN <<>>
    ELSE ListItem(sentences[top[k]]) \o ListItems(sentences, top, k + 1)

\* a summary without the early return for short texts
SummarizeShortToo(text, tr) ==
    LET stripped == strip(text)
        translate == NeedsTranslation(stripped)
        final == IF translate THEN Translated(stripped, tr) ELSE stripped
        sentences == Sentences(final)
        scores == [i \in 1..Len(sentences) |-> Score(i, sentences[i])]
        top == TopItems(scores)
    IN [html |-> ul_open \o ListItems(sentences, top, 1) \o ul_close,
        short |-> FALSE, translate |-> translate,
        sentences |-> sentences, scores |-> scores, top |-> top]

\* the text is not empty, it is not short after strip(), and it needs
\* translation: _summarize_text calls the translation service, once
CallsTranslator(text) ==
    /\ text # <<>>
    /\ Len(strip(text)) >= ShortText
    /\ NeedsTranslation(strip(text))

\* _summarize_text(text) with the outcome tr of the translation call, when
\* there is one.  The record holds the value returned (html) and what the
\* function computed on the way.
_summarize_text(text, tr) ==
    LET stripped == strip(text)
        translate == CallsTranslator(text)
        final == IF translate THEN Translated(stripped, tr) ELSE stripped
        sentences == Sentences(final)
        scores == [i \in 1..Len(sentences) |-> Score(i, sentences[i])]
        top == TopItems(scores)
    IN IF text = <<>> \/ Len(stripped) < ShortText
       THEN [html |-> stripped, short |-> TRUE, translate |-> translate,
             sentences |-> <<>>, scores |-> <<>>, top |-> <<>>]
       ELSE [html |-> ul_open \o ListItems(sentences, top, 1) \o ul_close,
             short |-> FALSE, translate |-> translate,
             sentences |-> sentences, scores |-> scores, top |-> top]

\* _analyze_content(content, title) with the outcome tr of the translation
\* call of its summary
_analyze_content(content, title, tr) ==
    LET full_text == lower(title \o <<32>> \o content)
    IN [emoji |-> SelectEmoji(1, full_text),
        keywords |-> ExtractKeywords(title, full_text),
        summary |-> _summarize_text(content, tr).html]

(***************************************************************************)
(* generate_daily_news.py: the data of a daily page.  A list of the data   *)
(* is kept by where its entries come from and how many they are.  The      *)
(* model takes NEV_API_BASE unset, its default: _fetch_api returns None    *)
(* and the get_* functions of the client answer with their built-in lists. *)
(***************************************************************************)
List(src, n) == [src |-> src, n |-> n]

NoList == List("none", 0)

\* the built-in tables of get_sales_rankings
weekly_data == List("mock", 8)

monthly_data == List("mock", 8)

\* one entry for each of the 8 target_models of the live search
collected_sales == List("live", 8)

\* the built-in lists of get_new_car_launches, get_industry_leaders_insights
\* (4 leaders with 2 statements each) and get_industry_news
new_launches == List("mock", 4)

leaders_insights == List("mock", 4)

recent_statements == List("mock", 8)

industry_news == List("mock", 5)

\* the live search of get_sales_rankings ends with an exception (of
\* requests.post, of r.json(), of the work on a result), or goes through
LiveOutcomes == {[called |-> TRUE, raised |-> r] : r \in BOOLEAN}

NoLive == [called |-> FALSE, raised |-> FALSE]

\* os.environ.get("RUN_TAVILY_COLLECTION") != "0"
CollectionOn(run) == run # "0"

\* get_sales_rankings(): the live rankings when the search is on and went
\* through; otherwise the function goes on to its built-in tables and
\* reads the name api, which it never assigns
get_sales_rankings(run, live) ==
    IF CollectionOn(run) /\ ~live.raised
    THEN [raised |-> None, weekly |-> collected_sales,
          monthly |-> List("live", 0)]
    ELSE [raised |-> "NameError", weekly |-> NoList, monthly |-> NoList]

NoIntel ==
    [defined |-> FALSE, competitors |-> NoList, news |-> NoList,
     error |-> FALSE]

NoData ==
    [total_data_points |-> 0,
     sales_rankings |-> [weekly |-> NoList, monthly |-> NoList],
     new_car_launches |-> [new_launches |-> NoList, total_count |-> 0],
     industry_leaders |-> [leaders |-> NoList, total_statements |-> 0],
     industry_news |-> [news |-> NoList, total_count |-> 0],
     smart_glass_intel |-> NoIntel]

\* get_all_data(): the dict literal calls get_sales_rankings first; its
\* exception leaves get_all_data
get_all_data(run, live) ==
    LET rankings == get_sales_rankings(run, live)
    IN IF rankings.raised # None
       THEN [raised |-> rankings.raised, data |-> NoData]
       ELSE [raised |-> None,
             data |->
                [total_data_points |-> 0,
                 sales_rankings |-> [weekly |-> rankings.weekly,
                                     monthly |-> rankings.monthly],
                 new_car_launches |-> [new_launches |-> new_launches,
                                       total_count |-> new_launches.n],
                 industry_leaders |-> [leaders |-> leaders_insights,
                                       total_statements |->
                                           recent_statements.n],
                 industry_news |-> [news |-> industry_news,
                                    total_count |-> industry_news.n],
                 smart_glass_intel |-> NoIntel]]

\* total_points of fetch_data
total_points(d) ==
    d.sales_rankings.weekly.n
    + d.sales_rankings.monthly.n
    + d.new_car_launches.new_launches.n
    + d.industry_leaders.total_statements
    + d.industry_news.news.n
    + d.smart_glass_intel.news.n
    + d.smart_glass_intel.competitors.n

(***************************************************************************)
(* The state.                                                              *)
(***************************************************************************)
VARIABLES
    config_file,      \* smart_glass_config.json on disk
    file,             \* smart_glass_db.json on disk
    file0,            \* history: the store file as it was at the start
    pc,               \* where the process is: "new", "ready", "loop", "items",
                      \* "done"; "load_error" and "crashed" when an exception
                      \* left SmartGlassMonitor() or run_daily_check
    config,           \* self.config: the competitors of the configuration
    db,               \* self.db
    qi,               \* run_daily_check: the index of query_obj in search_queries
    results,          \* run_daily_check: the results not yet processed
    new_items_count,  \* run_daily_check: new_items_count
    ret,              \* the value run_daily_check returned, -1 before
    now,              \* datetime.now(), in seconds
    n_requests,       \* history: requests.post calls of the run
    n_writes,         \* history: writes of the store file
    delivered,        \* history: results the service returned during the run
    items0,           \* history: db["items"] when run_daily_check began
    all_failed,       \* history: every request of the run hit a transport error
    last_add,         \* the store alone: the last _add_to_db call and its result
    response,         \* the search alone: the response of the service
    search_ret,       \* the search alone: what _tavily_search returned
    spc,              \* the search alone: "idle", "request", "iterating", "raised"
    content,          \* the cleaner alone: its input
    cleaned,          \* the cleaner alone: its output
    cpc,              \* the cleaner alone: "idle", "raw", "cleaned"
    title,            \* the analysis alone: the title of the item
    text,             \* the analysis and the summary alone: the content
    translation,      \* the outcome of the one call of the translation service
    summary,          \* the summary alone: what _summarize_text computed
    analysis,         \* the analysis alone: what _analyze_content returned
    npc,              \* "idle", "text", "summarized", "item", "analyzed"
    report,           \* what get_report_data returned, NoReport before
    env,              \* os.environ: TAVILY_API_KEY and RUN_TAVILY_COLLECTION
    fpc,              \* where fetch_data is: "idle", "start", "kol",
                      \* "new_cars", "smart_glass", "pause", "mock", "total",
                      \* "snapshot", "done"; "raised" when an exception left it
    data,             \* self.data of the generator
    calls,            \* history: the calls fetch_data made, in their order
    ferr,             \* the exception that left fetch_data, None if none
    live,             \* history: how the live search of the rankings went
    leader_data,      \* what collect_kol_content returned
    seen              \* history: the URLs of the results the run has been
                      \* through, each with the category, competitor and
                      \* tag of the first query that brought it, and
                      \* whether a query with other values brought it again

vars == <<config_file, file, file0, pc, config, db, qi, results,
          new_items_count, ret, now, n_requests, n_writes, delivered, items0,
          all_failed, last_add, response, search_ret, spc, content, cleaned,
          cpc, title, text, translation, summary, analysis, npc, report,
          env, fpc, data, calls, ferr, live, leader_data, seen>>

run_vars == <<qi, results, new_items_count, ret, n_requests, n_writes, delivered,
              items0, all_failed, seen>>

search_vars == <<response, search_ret, spc>>

cleaner_vars == <<content, cleaned, cpc>>

news_vars == <<title, text, translation, summary, analysis, npc>>

fetch_vars == <<env, fpc, data, calls, ferr, live, leader_data>>

NoItem ==
    [url |-> Absent, title |-> Absent, content |-> <<>>,
     published_date |-> Absent, score |-> <<>>]

NoAdd ==
    [called |-> FALSE, item |-> NoItem, category |-> "", competitor |-> None,
     tags |-> <<>>, ret |-> FALSE, before |-> <<>>, at |-> 0]

NoResponse == [sent |-> FALSE, status |-> 0, body |-> "none", results |-> <<>>]

EmptyList == [is_list |-> TRUE, list |-> <<>>]

Terminal == {"done", "load_error", "crashed"}

RunInit ==
    /\ qi = 0
    /\ results = <<>>
    /\ new_items_count = 0
    /\ ret = -1
    /\ n_requests = 0
    /\ n_writes = 0
    /\ delivered = 0
    /\ items0 = <<>>
    /\ all_failed = TRUE
    /\ seen = {}

SearchIdle ==
    /\ response = NoResponse
    /\ search_ret = EmptyList
    /\ spc = "idle"

CleanerIdle ==
    /\ content = <<>>
    /\ cleaned = <<>>
    /\ cpc = "idle"

NoTranslation == [raised |-> FALSE, same |-> FALSE, text |-> <<>>]

NoSummary ==
    [html |-> <<>>, short |-> TRUE, translate |-> FALSE, sentences |-> <<>>,
     scores |-> <<>>, top |-> <<>>]

NoAnalysis == [emoji |-> <<>>, keywords |-> <<>>, summary |-> <<>>]

NoReport ==
    [returned |-> FALSE, competitor_news |-> <<>>, industry_news |-> <<>>,
     stats |-> [total_tracked |-> 0, last_update |-> <<>>]]

NewsIdle ==
    /\ title = <<>>
    /\ text = <<>>
    /\ translation = NoTranslation
    /\ summary = NoSummary
    /\ analysis = NoAnalysis
    /\ npc = "idle"

NoLeaderData == [returned |-> FALSE, results |-> NoList]

FetchIdle ==
    /\ env = [key |-> Absent, run |-> Absent]
    /\ fpc = "idle"
    /\ data = NoData
    /\ calls = <<>>
    /\ ferr = None
    /\ live = NoLive
    /\ leader_data = NoLeaderData

Init ==
    /\ config_file \in ConfigFiles
    /\ file \in DbFiles
    /\ file0 = file
    /\ pc = "new"
    /\ config = <<>>
    /\ db = EmptyDb
    /\ now = 0
    /\ last_add = NoAdd
    /\ RunInit
    /\ SearchIdle
    /\ CleanerIdle
    /\ NewsIdle
    /\ report = NoReport
    /\ FetchIdle

(***************************************************************************)
(* SmartGlassMonitor(): __init__ loads the configuration, then the store.  *)
(* An exception of either load leaves the constructor.                     *)
(***************************************************************************)
Construct ==
    /\ pc = "new"
    /\ LET c == _load_config(config_file)
           d == _load_db(file)
       IN IF c.raised \/ d.raised
          THEN /\ pc' = "load_error"
               /\ UNCHANGED <<config, db>>
          ELSE /\ pc' = "ready"
               /\ config' = c.competitors
               /\ db' = d.db
    /\ UNCHANGED <<config_file, file, file0, now, last_add, run_vars,
                   search_vars, cleaner_vars, news_vars, report, fetch_vars>>

(***************************************************************************)
(* run_daily_check                                                         *)
(***************************************************************************)
\* the queries are prepared and the loop is entered
RunStart ==
    /\ pc = "ready"
    /\ pc' = "loop"
    /\ qi' = 1
    /\ new_items_count' = 0
    /\ items0' = db.items
    /\ seen' = {}
    /\ UNCHANGED <<config_file, file, file0, config, db, results, ret, now,
                   n_requests, n_writes, delivered, all_failed, last_add,
                   search_vars, cleaner_vars, news_vars, report, fetch_vars>>

\* a search that sends the request again when it failed
SearchRetrying(r) ==
    /\ pc = "loop"
    /\ qi <= Len(search_queries(config))
    /\ LET v == _tavily_search(r)
       IN /\ delivered + Len(r.results) <= MaxRunResults
          /\ delivered' = delivered + Len(r.results)
          /\ all_failed' = (all_failed /\ TransportError(r))
          /\ IF ~v.is_list
             THEN pc' = "crashed" /\ results' = <<>> /\ qi' = qi
             ELSE IF v.list = <<>>
             THEN pc' = "loop" /\ results' = <<>> /\ qi' = qi + 1
             ELSE pc' = "items" /\ results' = v.list /\ qi' = qi
    /\ n_requests' = n_requests + (IF TransportError(r) THEN 2 ELSE 1)
    /\ UNCHANGED <<config_file, file, file0, config, db, new_items_count, ret,
                   now, n_writes, items0, seen, last_add, search_vars,
                   cleaner_vars, news_vars, report, fetch_vars>>

\* results = self._tavily_search(query_obj['q'], days=30): one request.  None
\* is not iterable: the for statement raises and run_daily_check is left.
SearchWith(r) ==
    /\ pc = "loop"
    /\ qi <= Len(search_queries(config))
    /\ LET v == _tavily_search(r)
       IN /\ delivered + Len(r.results) <= MaxRunResults
          /\ delivered' = delivered + Len(r.results)
          /\ all_failed' = (all_failed /\ TransportError(r))
          /\ IF ~v.is_list
             THEN pc' = "crashed" /\ results' = <<>> /\ qi' = qi
             ELSE IF v.list = <<>>
             THEN pc' = "loop" /\ results' = <<>> /\ qi' = qi + 1
             ELSE pc' = "items" /\ results' = v.list /\ qi' = qi
    /\ n_requests' = n_requests + 1
    /\ UNCHANGED <<config_file, file, file0, config, db, new_items_count, ret,
                   now, n_writes, items0, seen, last_add, search_vars,
                   cleaner_vars, news_vars, report, fetch_vars>>

Search == \E r \in Responses : SearchWith(r)

\* the history after a result with URL u of the query query_obj went
\* through the loop: results without a URL are skipped by _add_to_db and
\* leave no trace
FirstSeen(s, u, query_obj) ==
    IF ~Truthy(u) THEN s
    ELSE IF \E e \in s : e.url = u
    THEN {IF e.url = u /\ <<e.cat, e.comp, e.tag>>
                          # <<query_obj.cat, query_obj.comp, query_obj.tag>>
          THEN [e EXCEPT !.again = TRUE] ELSE e : e \in s}
    ELSE s \cup {[url |-> u, cat |-> query_obj.cat, comp |-> query_obj.comp,
                  tag |-> query_obj.tag, again |-> FALSE]}

\* a pass that writes the store file after every item
ProcessItemSaving ==
    /\ pc = "items"
    /\ results # <<>>
    /\ LET query_obj == search_queries(config)[qi]
           item == [Head(results) EXCEPT !.content = _clean_content(@)]
           a == _add_to_db(db.items, item, query_obj.cat, query_obj.comp,
                           <<query_obj.tag>>, now)
       IN /\ db' = _save_db([db EXCEPT !.items = a.items], now)
          /\ new_items_count' = IF a.ret THEN new_items_count + 1
                                ELSE new_items_count
    /\ file' = [kind |-> "ok", doc |-> db']
    /\ n_writes' = n_writes + 1
    /\ seen' = FirstSeen(seen, Get(Head(results).url),
                         search_queries(config)[qi])
    /\ results' = Tail(results)
    /\ IF Tail(results) = <<>>
       THEN pc' = "loop" /\ qi' = qi + 1
       ELSE UNCHANGED <<pc, qi>>
    /\ UNCHANGED <<config_file, file0, config, ret, now, n_requests,
                   delivered, items0, all_failed, last_add, search_vars,
                   cleaner_vars, news_vars, report, fetch_vars>>

\* a pass that counts every result that has a URL, added or not
ProcessItemCountingAll ==
    /\ pc = "items"
    /\ results # <<>>
    /\ LET query_obj == search_queries(config)[qi]
           item == [Head(results) EXCEPT !.content = _clean_content(@)]
           a == _add_to_db(db.items, item, query_obj.cat, query_obj.comp,
                           <<query_obj.tag>>, now)
       IN /\ db' = [db EXCEPT !.items = a.items]
          /\ new_items_count' = IF Truthy(Get(item.url))
                                THEN new_items_count + 1
                                ELSE new_items_count
    /\ seen' = FirstSeen(seen, Get(Head(results).url),
                         search_queries(config)[qi])
    /\ results' = Tail(results)
    /\ IF Tail(results) = <<>>
       THEN pc' = "loop" /\ qi' = qi + 1
       ELSE UNCHANGED <<pc, qi>>
    /\ UNCHANGED <<config_file, file, file0, config, ret, now, n_requests,
                   n_writes, delivered, items0, all_failed, last_add, search_vars,
                   cleaner_vars, news_vars, report, fetch_vars>>

\* one pass of "for item in results": clean, add, count
ProcessItem ==
    /\ pc = "items"
    /\ results # <<>>
    /\ LET query_obj == search_queries(config)[qi]
           item == [Head(results) EXCEPT !.content = _clean_content(@)]
           a == _add_to_db(db.items, item, query_obj.cat, query_obj.comp,
                           <<query_obj.tag>>, now)
       IN /\ db' = [db EXCEPT !.items = a.items]
          /\ new_items_count' = IF a.ret THEN new_items_count + 1
                                ELSE new_items_count
    /\ seen' = FirstSeen(seen, Get(Head(results).url),
                         search_queries(config)[qi])
    /\ results' = Tail(results)
    /\ IF Tail(results) = <<>>
       THEN pc' = "loop" /\ qi' = qi + 1
       ELSE UNCHANGED <<pc, qi>>
    /\ UNCHANGED <<config_file, file, file0, config, ret, now, n_requests,
                   n_writes, delivered, items0, all_failed, last_add, search_vars,
                   cleaner_vars, news_vars, report, fetch_vars>>

\* after the last query: self._save_db(); return new_items_count
Finish ==
    /\ pc = "loop"
    /\ qi > Len(search_queries(config))
    /\ db' = _save_db(db, now)
    /\ file' = [kind |-> "ok", doc |-> db']
    /\ n_writes' = n_writes + 1
    /\ ret' = new_items_count
    /\ pc' = "done"
    /\ UNCHANGED <<config_file, file0, config, qi, results, new_items_count,
                   now, n_requests, delivered, items0, all_failed, seen,
                   last_add, search_vars, cleaner_vars, news_vars, report,
                   fetch_vars>>

\* a report that sorts db["items"] itself
GetReportSortingInPlace ==
    /\ pc \in {"ready", "done"}
    /\ ~report.returned
    /\ db' = [db EXCEPT !.items = sorted_items(@)]
    /\ report' = get_report_data(db)
    /\ UNCHANGED <<config_file, file, file0, pc, config, now, last_add,
                   run_vars, search_vars, cleaner_vars, news_vars, fetch_vars>>

\* report_data = monitor.get_report_data(), on a constructed monitor: before
\* a run or after it
GetReport ==
    /\ pc \in {"ready", "done"}
    /\ ~report.returned
    /\ report' = get_report_data(db)
    /\ UNCHANGED <<config_file, file, file0, pc, config, db, now, last_add,
                   run_vars, search_vars, cleaner_vars, news_vars, fetch_vars>>

\* time passes
Tick ==
    /\ pc \notin Terminal
    /\ now < MaxClock
    /\ now' = now + 1
    /\ UNCHANGED <<config_file, file, file0, pc, config, db, last_add,
                   run_vars, search_vars, cleaner_vars, news_vars, report, fetch_vars>>

Next ==
    Construct \/ RunStart \/ Search \/ ProcessItem \/ Finish \/ GetReport
    \/ Tick

Spec == Init /\ [][Next]_vars

(***************************************************************************)
(* The store alone: any sequence of _add_to_db calls on a constructed      *)
(* monitor whose store holds pairwise distinct URLs.                       *)
(***************************************************************************)
AddParams ==
    { [category |-> "Competitor", competitor |-> "View", tags |-> <<"EC">>],
      [category |-> "Industry", competitor |-> None, tags |-> <<>>] }

StoreInit ==
    /\ config_file = [kind |-> "missing", competitors |-> <<>>]
    /\ file \in {f \in DbFiles : f.kind # "malformed"}
    /\ file0 = file
    /\ pc = "ready"
    /\ config = <<>>
    /\ db = _load_db(file).db
    /\ now = 0
    /\ last_add = NoAdd
    /\ RunInit
    /\ SearchIdle
    /\ CleanerIdle
    /\ NewsIdle
    /\ report = NoReport
    /\ FetchIdle

AddCall ==
    /\ pc = "ready"
    /\ \E item \in RawResults, p \in AddParams :
         LET a == _add_to_db(db.items, item, p.category, p.competitor,
                             p.tags, now)
         IN /\ db' = [db EXCEPT !.items = a.items]
            /\ last_add' = [called |-> TRUE, item |-> item,
                            category |-> p.category,
                            competitor |-> p.competitor, tags |-> p.tags,
                            ret |-> a.ret, before |-> db.items, at |-> now]
    /\ UNCHANGED <<config_file, file, file0, pc, config, now, run_vars,
                   search_vars, cleaner_vars, news_vars, report, fetch_vars>>

StoreNext == AddCall \/ Tick

SpecStore == StoreInit /\ [][StoreNext]_vars

(***************************************************************************)
(* The search alone: one call of _tavily_search from run_daily_check, on   *)
(* every response, and the for statement over the value returned.          *)
(***************************************************************************)
SearchInit ==
    /\ config_file = [kind |-> "missing", competitors |-> <<>>]
    /\ file = [kind |-> "missing", doc |-> EmptyDb]
    /\ file0 = file
    /\ pc = "ready"
    /\ config = <<>>
    /\ db = EmptyDb
    /\ now = 0
    /\ last_add = NoAdd
    /\ RunInit
    /\ response \in Responses
    /\ search_ret = EmptyList
    /\ spc = "request"
    /\ CleanerIdle
    /\ NewsIdle
    /\ report = NoReport
    /\ FetchIdle

SearchCall ==
    /\ spc = "request"
    /\ search_ret' = _tavily_search(response)
    /\ spc' = IF search_ret'.is_list THEN "iterating" ELSE "raised"
    /\ UNCHANGED <<config_file, file, file0, pc, config, db, now, last_add,
                   run_vars, response, cleaner_vars, news_vars, report, fetch_vars>>

SearchNext == SearchCall

SpecSearch == SearchInit /\ [][SearchNext]_vars

(***************************************************************************)
(* The cleaner alone, on every text of up to MaxParts parts.               *)
(***************************************************************************)
CleanParts ==
    { <<82, 101, 97, 100>>,                  \* "Read"
      <<32>>,                                \* " "
      <<109, 111, 114, 101>>,                \* "more"
      <<76, 79, 71>>,                        \* "LOG"
      <<105, 110>>,                          \* "in"
      <<10>>,                                \* "\n"
      <<32, 10>>,                            \* " \n"
      <<229, 136, 134>>,                     \* U+5206 read as Latin-1
      <<233>>,                               \* e acute
      <<20998>> }                            \* U+5206

RECURSIVE Texts(_)
Texts(n) ==
    IF n = 0 THEN {<<>>}
    ELSE LET shorter == Texts(n - 1)
         IN shorter \cup {t \o p : t \in shorter, p \in CleanParts}

CleanInit ==
    /\ config_file = [kind |-> "missing", competitors |-> <<>>]
    /\ file = [kind |-> "missing", doc |-> EmptyDb]
    /\ file0 = file
    /\ pc = "ready"
    /\ config = <<>>
    /\ db = EmptyDb
    /\ now = 0
    /\ last_add = NoAdd
    /\ RunInit
    /\ SearchIdle
    /\ content \in Texts(MaxParts)
    /\ cleaned = <<>>
    /\ cpc = "raw"
    /\ NewsIdle
    /\ report = NoReport
    /\ FetchIdle

Clean ==
    /\ cpc = "raw"
    /\ cleaned' = _clean_content(content)
    /\ cpc' = "cleaned"
    /\ UNCHANGED <<config_file, file, file0, pc, config, db, now, last_add,
                   run_vars, search_vars, content, news_vars, report, fetch_vars>>

CleanNext == Clean

SpecClean == CleanInit /\ [][CleanNext]_vars

(***************************************************************************)
(* The summary alone: one call of _summarize_text on every text of up to   *)
(* MaxSentences parts, with every outcome of the translation call.         *)
(***************************************************************************)
MaxSentences == 4

SentenceParts ==
    { \* 15 characters with three keywords (U+9500 U+91CF, U+540C U+6BD4, U+589E U+957F)
      <<20170, 24180, 38144, 37327, 21516, 27604, 22686, 38271, 20102,
        30334, 20998, 20043, 20108, 21313, 12290>>,
      \* 13 characters, the keyword U+589E U+957F only
      <<20844, 21496, 30340, 19994, 32489, 26377, 20102, 26126, 26174,
        30340, 22686, 38271, 12290>>,
      \* 13 characters, no keyword
      <<20170, 22825, 30340, 22825, 27668, 38750, 24120, 22909, 36866,
        21512, 20986, 38376, 12290>>,
      \* 21 characters, no keyword, no sentence end
      <<25105, 20204, 22312, 21608, 26411, 19968, 36215, 21435, 20102,
        20844, 22253, 25955, 27493, 28982, 21518, 22238, 23478, 21507,
        20102, 26202, 39277>>,
      \* "Sales growth was strong this year."
      <<83, 97, 108, 101, 115, 32, 103, 114, 111, 119, 116, 104, 32, 119,
        97, 115, 32, 115, 116, 114, 111, 110, 103, 32, 116, 104, 105, 115,
        32, 121, 101, 97, 114, 46>>,
      \* "hello"
      <<104, 101, 108, 108, 111>>,
      \* " hi\t"
      <<32, 104, 105, 9>> }

\* what stands between two parts of a text
Joints == { <<>>, <<32>>, <<10>> }

RECURSIVE Joined(_, _)
Joined(n, joint) ==
    IF n = 0 THEN {<<>>}
    ELSE LET shorter == Joined(n - 1, joint)
         IN shorter \cup SentenceParts
                    \cup {t \o joint \o p :
                             t \in shorter \ {<<>>}, p \in SentenceParts}

SummaryTexts == UNION {Joined(MaxSentences, joint) : joint \in Joints}

\* the translation service raises, returns its input, or returns a text
TranslateOutcomes ==
    { [raised |-> TRUE, same |-> FALSE, text |-> <<>>],
      [raised |-> FALSE, same |-> TRUE, text |-> <<>>],
      \* four sentences, cut by " " and "\n", the last without a sentence end
      [raised |-> FALSE, same |-> FALSE, text |->
          <<26032, 33021, 28304, 24066, 22330, 22686, 38271, 24456, 24555, 12290,
          32, 20844, 21496, 30340, 19994, 32489, 26377, 20102, 26126, 26174,
          30340, 22686, 38271, 12290, 32, 20170, 22825, 30340, 22825, 27668,
          38750, 24120, 22909, 36866, 21512, 20986, 38376, 12290, 10, 20170,
          24180, 38144, 37327, 21516, 27604, 22686, 38271, 20102, 30334, 20998,
          20043, 20108, 21313>>] }

SummarizeInit ==
    /\ config_file = [kind |-> "missing", competitors |-> <<>>]
    /\ file = [kind |-> "missing", doc |-> EmptyDb]
    /\ file0 = file
    /\ pc = "ready"
    /\ config = <<>>
    /\ db = EmptyDb
    /\ now = 0
    /\ last_add = NoAdd
    /\ RunInit
    /\ SearchIdle
    /\ CleanerIdle
    /\ title = <<>>
    /\ text \in SummaryTexts
    /\ translation = NoTranslation
    /\ summary = NoSummary
    /\ analysis = NoAnalysis
    /\ npc = "text"
    /\ report = NoReport
    /\ FetchIdle

\* summary = self._summarize_text(text); the translation service is called
\* when the text needs translation, and answers in any of its ways
Summarize ==
    /\ npc = "text"
    /\ \E tr \in IF CallsTranslator(text) THEN TranslateOutcomes
                 ELSE {NoTranslation} :
         /\ summary' = _summarize_text(text, tr)
         /\ translation' = tr
    /\ npc' = "summarized"
    /\ UNCHANGED <<config_file, file, file0, pc, config, db, now, last_add,
                   run_vars, search_vars, cleaner_vars, title, text,
                   analysis, report, fetch_vars>>

SummarizeNext == Summarize

SpecSummarize == SummarizeInit /\ [][SummarizeNext]_vars

(***************************************************************************)
(* The analysis alone: one call of _analyze_content on every title of up   *)
(* to MaxTitleParts parts and every content.                               *)
(***************************************************************************)
MaxTitleParts == 3

TitleParts ==
    { \* "Smart Glass"
      <<83, 109, 97, 114, 116, 32, 71, 108, 97, 115, 115>>,
      \* "Growth"
      <<71, 114, 111, 119, 116, 104>>,
      \* "Tesla"
      <<84, 101, 115, 108, 97>>,
      \* "Motors,"
      <<77, 111, 116, 111, 114, 115, 44>>,
      \* "AI"
      <<65, 73>>,
      \* "new"
      <<110, 101, 119>>,
      \* "Hi"
      <<72, 105>>,
      \* U+589E U+957F
      <<22686, 38271>> }

RECURSIVE Titles(_)
Titles(n) ==
    IF n = 0 THEN {<<>>}
    ELSE LET shorter == Titles(n - 1)
         IN shorter \cup TitleParts
                    \cup {t \o <<32>> \o p :
                             t \in shorter \ {<<>>}, p \in TitleParts}

Contents ==
    { \* the empty content
      <<>>,
      \* "ok"
      <<111, 107>>,
      \* "Patent forecast, sales revenue and award"
      <<80, 97, 116, 101, 110, 116, 32, 102, 111, 114, 101, 99, 97, 115,
        116, 44, 32, 115, 97, 108, 101, 115, 32, 114, 101, 118, 101, 110,
        117, 101, 32, 97, 110, 100, 32, 97, 119, 97, 114, 100>>,
      \* "Sales growth was strong this year. The company launched a new car."
      <<83, 97, 108, 101, 115, 32, 103, 114, 111, 119, 116, 104, 32, 119,
        97, 115, 32, 115, 116, 114, 111, 110, 103, 32, 116, 104, 105, 115,
        32, 121, 101, 97, 114, 46, 32, 84, 104, 101, 32, 99, 111, 109, 112,
        97, 110, 121, 32, 108, 97, 117, 110, 99, 104, 101, 100, 32, 97, 32,
        110, 101, 119, 32, 99, 97, 114, 46>> }

AnalyzeInit ==
    /\ config_file = [kind |-> "missing", competitors |-> <<>>]
    /\ file = [kind |-> "missing", doc |-> EmptyDb]
    /\ file0 = file
    /\ pc = "ready"
    /\ config = <<>>
    /\ db = EmptyDb
    /\ now = 0
    /\ last_add = NoAdd
    /\ RunInit
    /\ SearchIdle
    /\ CleanerIdle
    /\ title \in Titles(MaxTitleParts)
    /\ text \in Contents
    /\ translation = NoTranslation
    /\ summary = NoSummary
    /\ analysis = NoAnalysis
    /\ npc = "item"
    /\ report = NoReport
    /\ FetchIdle

\* analysis = self._analyze_content(item.get("content", ""),
\*                                  item.get("title", ""))
Analyze ==
    /\ npc = "item"
    /\ \E tr \in IF CallsTranslator(text) THEN TranslateOutcomes
                 ELSE {NoTranslation} :
         /\ analysis' = _analyze_content(text, title, tr)
         /\ summary' = _summarize_text(text, tr)
         /\ translation' = tr
    /\ npc' = "analyzed"
    /\ UNCHANGED <<config_file, file, file0, pc, config, db, now, last_add,
                   run_vars, search_vars, cleaner_vars, title, text, report, fetch_vars>>

AnalyzeNext == Analyze

SpecAnalyze == AnalyzeInit /\ [][AnalyzeNext]_vars

(***************************************************************************)
(* The report alone: get_report_data on a monitor whose store holds up to  *)
(* MaxStored items, appended in the order of their fetched_at.             *)
(***************************************************************************)
MaxStored == 22

\* the i-th item of a store: every every-th item is of a competitor, and
\* same items in a row share one fetched_at
StoredItem(i, every, same) ==
    [OldItem EXCEPT !.url = "https://x.com/" \o ToString(i),
                    !.fetched_at = strftime_datetime(i \div same),
                    !.category = IF i % every = 0 THEN "Competitor"
                                 ELSE "Industry",
                    !.competitor = IF i % every = 0 THEN "View" ELSE None]

ReportStores ==
    { [items |-> [i \in 1..n |-> StoredItem(i, every, same)],
       last_update |-> IF n = 0 THEN <<>> ELSE strftime_datetime(n \div same)] :
          n \in 0..MaxStored, every \in {1, 2, 3, MaxStored + 2},
          same \in {1, 3, MaxStored + 2} }

ReportInit ==
    /\ config_file = [kind |-> "missing", competitors |-> <<>>]
    /\ db \in ReportStores
    /\ file = [kind |-> "ok", doc |-> db]
    /\ file0 = file
    /\ pc = "ready"
    /\ config = <<>>
    /\ now = 0
    /\ last_add = NoAdd
    /\ RunInit
    /\ SearchIdle
    /\ CleanerIdle
    /\ NewsIdle
    /\ report = NoReport
    /\ FetchIdle

ReportNext == GetReport

SpecReport == ReportInit /\ [][ReportNext]_vars

(***************************************************************************)
(* The claims.                                                             *)
(***************************************************************************)
\* the URL an _add_to_db call was given: item.get("url")
AddedUrl == Get(last_add.item.url)

\* the items of the store that carry URL u
WithUrl(items, u) == {i \in 1..Len(items) : items[i].url = u}

\* the items the current run has added
RunAdded == (Len(items0) + 1)..Len(db.items)

InRun == pc \in {"loop", "items", "done", "crashed"}

\* C1: from a store of pairwise distinct URLs, after any sequence of
\* _add_to_db calls no two items of db["items"] have the same url.
C1_UniqueUrls ==
    \A i, j \in 1..Len(db.items) :
        i # j => db.items[i].url # db.items[j].url

\* C1 witness: a call with a URL already stored has returned, the store
\* holding two items.
C1_Witness ==
    /\ last_add.called
    /\ Truthy(AddedUrl)
    /\ WithUrl(last_add.before, AddedUrl) # {}
    /\ Len(db.items) = 2

\* C2: _add_to_db returns True exactly when the url is non-empty and the url
\* of no stored item, and then the store has grown by exactly one item, the
\* last, carrying that url; after any call with a non-empty url exactly one
\* stored item carries it.
C2_AddReturn ==
    last_add.called =>
        LET before == last_add.before
            fresh == Truthy(AddedUrl) /\ WithUrl(before, AddedUrl) = {}
        IN /\ last_add.ret <=> fresh
           /\ last_add.ret =>
                /\ Len(db.items) = Len(before) + 1
                /\ SubSeq(db.items, 1, Len(before)) = before
                /\ db.items[Len(db.items)].url = AddedUrl
           /\ ~last_add.ret => Len(db.items) = Len(before)
           /\ Truthy(AddedUrl) => Cardinality(WithUrl(db.items, AddedUrl)) = 1

\* C2 witness: the second of two adds with the same URL has returned False,
\* the first having added the item.
C2_Witness ==
    /\ last_add.called
    /\ ~last_add.ret
    /\ Truthy(AddedUrl)
    /\ \E i \in WithUrl(db.items, AddedUrl) : db.items[i] # OldItem

\* C3: a call with a URL already stored returns False and leaves the store as
\* it was: the same number of items, every stored item with all its fields.
C3_DuplicateLeavesStore ==
    (last_add.called /\ WithUrl(last_add.before, AddedUrl) # {}) =>
        /\ ~last_add.ret
        /\ db.items = last_add.before

\* C3 witness: the call carried a stored URL and another title.
C3_Witness ==
    /\ last_add.called
    /\ \E i \in WithUrl(last_add.before, AddedUrl) :
         /\ last_add.before[i].title = "Original"
         /\ last_add.item.title = "A1"
    /\ Len(db.items) = 1

\* C4 as stated: with an empty configuration a run_daily_check issues zero
\* search queries and returns with the store unchanged.
C4_EmptyConfigNoQueries ==
    (pc = "done" /\ config = <<>>) =>
        /\ n_requests = 0
        /\ db.items = items0

\* C4, amended: with an empty configuration a run_daily_check prepares no
\* competitor query, only the two queries of each built-in industry keyword,
\* and sends one request for each of them; when these bring no new URL (the
\* run returns 0) the stored items are those before the run.
C4_EmptyConfigIndustryOnly ==
    (pc = "done" /\ config = <<>>) =>
        /\ \A k \in 1..Len(search_queries(config)) :
             search_queries(config)[k].cat = "Industry"
        /\ n_requests = 2 * Len(industry_keywords)
        /\ ret = 0 => db.items = items0

\* C4 witness: a run with the empty configuration has returned 0 after its
\* sixteen requests.
C4_Witness ==
    /\ pc = "done"
    /\ config = <<>>
    /\ config_file.kind = "missing"
    /\ n_requests = 16
    /\ ret = 0

\* C5: a run in which every query hits a transport error does not abort: it
\* adds nothing, returns 0, and saves the store with the items it had.
C5_AllFailedRunCompletes ==
    (InRun /\ all_failed) =>
        /\ pc # "crashed"
        /\ new_items_count = 0
        /\ db.items = items0
        /\ pc = "done" =>
             /\ ret = 0
             /\ n_writes = 1
             /\ file.kind = "ok"
             /\ file.doc = db
             /\ file.doc.items = items0

\* C5 witness: every request of a finished run failed, the store holding an
\* item from before.
C5_Witness ==
    /\ pc = "done"
    /\ all_failed
    /\ n_requests = Len(search_queries(config))
    /\ n_requests > 0
    /\ items0 = <<OldItem>>

\* C6 as stated: _tavily_search returns an empty list for every failing
\* outcome of the request (an exception while sending, a status other than
\* 200, an exception while decoding), and for every response it returns a
\* list, which the for statement of run_daily_check iterates over.
C6_SearchReturnsList ==
    spc # "request" =>
        /\ search_ret.is_list
        /\ spc = "iterating"
        /\ (TransportError(response) \/ response.body = "undecodable") =>
             search_ret.list = <<>>

\* C7: a malformed store file makes SmartGlassMonitor() raise: no monitor is
\* ever constructed on an empty store, and the file stays as it was.
C7_MalformedStoreSurfaces ==
    file0.kind = "malformed" =>
        /\ pc \in {"new", "load_error"}
        /\ file = file0
        /\ n_writes = 0

\* C7 witness: the constructor has raised on a malformed store file, the
\* configuration file being sound.
C7_Witness ==
    /\ pc = "load_error"
    /\ file0.kind = "malformed"
    /\ config_file.kind = "ok"

\* C8: the items added during one run carry fetched_at values that do not
\* decrease with the position in db["items"].
C8_FetchedAtOrdered ==
    InRun =>
        \A i, j \in RunAdded :
            i < j => StrLeq(db.items[i].fetched_at, db.items[j].fetched_at)

\* C8 witness: a run has added two items, the second on the next day, at an
\* earlier second of the day than the first.
C8_Witness ==
    /\ InRun
    /\ Len(db.items) = Len(items0) + 2
    /\ db.items[Len(db.items) - 1].fetched_at = <<0, 1>>
    /\ db.items[Len(db.items)].fetched_at = <<1, 0>>

\* C9 as stated: a newly added item carries the published_date of the search
\* result when the result supplies one, and the current date when it has
\* none; it is never left empty.
C9_PublishedDate ==
    (last_add.called /\ last_add.ret) =>
        LET e == db.items[Len(db.items)]
            pd == last_add.item.published_date
        IN /\ Truthy(pd) => e.published_date = pd
           /\ ~Truthy(pd) => e.published_date = strftime_date(last_add.at)
           /\ Truthy(e.published_date)

\* C10 as stated: no noise pattern matches anywhere in the output of
\* _clean_content, whatever the input.
C10_NoNoiseInOutput ==
    cpc = "cleaned" =>
        \A k \in 1..Len(noise_patterns) :
            \A i \in 1..Len(cleaned) :
                MatchEnd(noise_patterns[k], cleaned, i) = 0

\* C11: the text _clean_content returns holds no two adjacent whitespace
\* characters and neither begins nor ends with one; an empty or missing
\* input gives the empty string.
C11_WhitespaceNormalised ==
    cpc = "cleaned" =>
        /\ \A i \in 1..(Len(cleaned) - 1) :
               ~(IsSpace(cleaned[i]) /\ IsSpace(cleaned[i + 1]))
        /\ cleaned # <<>> =>
               ~IsSpace(cleaned[1]) /\ ~IsSpace(cleaned[Len(cleaned)])
        /\ content = <<>> => cleaned = <<>>

\* a text with a run of two whitespace characters between two words has been
\* cleaned
C11_Witness ==
    /\ cpc = "cleaned"
    /\ \E i \in 1..(Len(content) - 3) :
           /\ ~IsSpace(content[i])
           /\ IsSpace(content[i + 1]) /\ IsSpace(content[i + 2])
           /\ ~IsSpace(content[i + 3])
    /\ Len(cleaned) = Len(content) - 1

\* C12: the keywords of an analysis are at most 5 and no keyword is listed
\* twice, whichever stage contributed them.
C12_KeywordsBoundedDistinct ==
    npc = "analyzed" =>
        /\ Len(analysis.keywords) <= 5
        /\ \A i, j \in 1..Len(analysis.keywords) :
               i # j => analysis.keywords[i] # analysis.keywords[j]

\* an analysis has 5 keywords, one of them no target keyword, and a
\* capitalised word of the title was a target keyword already found
C12_Witness ==
    /\ npc = "analyzed"
    /\ Len(analysis.keywords) = 5
    /\ \E i \in 1..5 : ~Member(analysis.keywords[i], target_keywords)
    /\ LET caps == FindCapWords(title)
       IN \E k \in 1..Len(caps) :
              /\ Member(caps[k], target_keywords)
              /\ Member(caps[k], analysis.keywords)

\* C13 as stated: every analysis carries at least one keyword and at most
\* 5, whatever the title and the content.
C13_AtLeastOneKeyword ==
    npc = "analyzed" =>
        Len(analysis.keywords) >= 1 /\ Len(analysis.keywords) <= 5

\* C14: the emoji of an analysis is never empty; it is the value of the
\* first key of emoji_map, in the order of declaration, that occurs in the
\* lower-cased title, space, content; it is the default icon exactly when
\* no key occurs.
C14_EmojiOfFirstKey ==
    npc = "analyzed" =>
        LET full_text == lower(title \o <<32>> \o text)
            hits == {k \in 1..Len(emoji_map) :
                        In(emoji_map[k].key, full_text)}
        IN /\ analysis.emoji # <<>>
           /\ (hits = {}) <=> (analysis.emoji = default_emoji)
           /\ \A k \in hits :
                  (\A h \in hits : k <= h) =>
                      analysis.emoji = emoji_map[k].value

\* two keys with different values occur in an analysed item, and the emoji
\* is the value of the earlier one
C14_Witness ==
    /\ npc = "analyzed"
    /\ \E k, h \in 1..Len(emoji_map) :
           /\ k < h
           /\ In(emoji_map[k].key, lower(title \o <<32>> \o text))
           /\ In(emoji_map[h].key, lower(title \o <<32>> \o text))
           /\ emoji_map[k].value # emoji_map[h].value
           /\ analysis.emoji = emoji_map[k].value

\* C15 as stated: _summarize_text returns the empty string for an empty
\* input, and every input shorter than 10 characters unchanged, without a
\* translation call and without list markup.
C15_ShortReturnedUnchanged ==
    (npc = "summarized" /\ Len(text) < 10) =>
        /\ summary.html = text
        /\ ~summary.translate
        /\ summary.short

\* C15, amended: _summarize_text returns the empty string for an empty
\* input; every input that is shorter than 10 characters once its leading
\* and trailing whitespace is removed comes back as that stripped text (the
\* input itself when it neither begins nor ends with whitespace), without a
\* translation call and without list markup.
C15_ShortReturnedStripped ==
    npc = "summarized" =>
        LET h == summary.html
            cuts == {c \in (0..Len(text)) \X (0..Len(text)) :
                        /\ c[1] <= c[2]
                        /\ \A i \in 1..c[1] : IsSpace(text[i])
                        /\ \A i \in (c[2] + 1)..Len(text) : IsSpace(text[i])
                        /\ c[1] < c[2] => /\ ~IsSpace(text[c[1] + 1])
                                          /\ ~IsSpace(text[c[2]])}
        IN /\ text = <<>> => h = <<>>
           /\ \A c \in cuts :
                  c[2] - c[1] < 10 =>
                      /\ h = SubSeq(text, c[1] + 1, c[2])
                      /\ ~summary.translate
                      /\ summary.short
                      /\ Len(h) < Len(ul_open)

\* a text shorter than 10 characters that begins and ends with whitespace
\* came back without them
C15_Witness ==
    /\ npc = "summarized"
    /\ Len(text) > 0 /\ Len(text) < 10
    /\ IsSpace(text[1]) /\ IsSpace(text[Len(text)])
    /\ summary.html # <<>>
    /\ Len(summary.html) = Len(text) - 2

\* C16: of two sentences of one text that have the same length, neither of
\* them the first, the one that holds U+589E U+957F scores strictly higher
\* than the one that holds no keyword, and is among the chosen sentences
\* whenever the other one is.
C16_KeywordSentenceOutranks ==
    npc = "summarized" =>
        \A a, b \in 2..Len(summary.sentences) :
            LET sa == summary.sentences[a]
                sb == summary.sentences[b]
            IN (/\ Len(sa) = Len(sb)
                /\ In(<<22686, 38271>>, sa)
                /\ \A k \in 1..Len(keywords) : ~In(keywords[k], sb))
               => /\ summary.scores[a] > summary.scores[b]
                  /\ Member(b, summary.top) => Member(a, summary.top)

\* four sentences were scored: the keyword-free sentence and the later
\* sentence of the same length with U+589E U+957F are both chosen, and a
\* second keyword-free sentence is left out
C16_Witness ==
    /\ npc = "summarized"
    /\ Len(summary.sentences) = 4
    /\ \E a, b, c \in 2..4 :
           /\ b < a /\ a < c
           /\ Len(summary.sentences[a]) = Len(summary.sentences[b])
           /\ In(<<22686, 38271>>, summary.sentences[a])
           /\ \A k \in 1..Len(keywords) : ~In(keywords[k], summary.sentences[b])
           /\ summary.sentences[c] = summary.sentences[b]
           /\ Member(a, summary.top) /\ Member(b, summary.top)
           /\ ~Member(c, summary.top)

\* the items of a list, as a set
Listed(list) == {list[i] : i \in 1..Len(list)}

\* the items of a list go from newer to older (equal fetched_at allowed)
NewestFirstList(list) ==
    \A i, j \in 1..Len(list) :
        i < j => StrLeq(list[j].fetched_at, list[i].fetched_at)

\* C17: the two lists of a report hold at most 20 items together, all of
\* them stored items and none twice; no stored item left out is newer than
\* a reported one; each list goes from newer to older; competitor_news
\* holds only items of category "Competitor", industry_news only items of
\* category "Industry".
C17_ReportNewestTwenty ==
    report.returned =>
        LET comp == report.competitor_news
            ind == report.industry_news
            shown == Listed(comp) \cup Listed(ind)
            stored == Listed(db.items)
        IN /\ Len(comp) + Len(ind) <= 20
           /\ Cardinality(shown) = Len(comp) + Len(ind)
           /\ shown \subseteq stored
           /\ \A x \in shown : \A y \in stored \ shown :
                  \/ StrLeq(y.fetched_at, x.fetched_at)
                  \/ y.category \notin {"Competitor", "Industry"}
           /\ Cardinality(shown) < 20 =>
                  \A y \in stored \ shown :
                      y.category \notin {"Competitor", "Industry"}
           /\ NewestFirstList(comp)
           /\ NewestFirstList(ind)
           /\ \A x \in Listed(comp) : x.category = "Competitor"
           /\ \A x \in Listed(ind) : x.category = "Industry"

\* a report of a store of more than 20 items of both categories and of more
\* than one fetched_at: 20 items are shown, some in each list, and an older
\* item is left out
C17_Witness ==
    /\ report.returned
    /\ Len(db.items) > 20
    /\ Len(report.competitor_news) + Len(report.industry_news) = 20
    /\ Len(report.competitor_news) > 1
    /\ Len(report.industry_news) > 1
    /\ report.industry_news[1].fetched_at
           # report.industry_news[Len(report.industry_news)].fetched_at
    /\ \E y \in Listed(db.items) :
           /\ y \notin Listed(report.competitor_news)
           /\ y \notin Listed(report.industry_news)
           /\ y.fetched_at # report.industry_news[1].fetched_at

\* C18: while run_daily_check is in its query loop, and when it was left by
\* an exception, the store file has not been written and is as it was
\* loaded; when the run has returned, the file was written exactly once,
\* after the results of the last query, and holds the store of that moment.
C18_StoreWrittenOnceAtEnd ==
    InRun =>
        /\ pc \in {"loop", "items", "crashed"} =>
               n_writes = 0 /\ file = file0
        /\ pc = "done" =>
               /\ n_writes = 1
               /\ qi = Len(search_queries(config)) + 1
               /\ results = <<>>
               /\ file = [kind |-> "ok", doc |-> db]

\* a run that added two items has returned: one write, and the file holds
\* both
C18_Witness ==
    /\ pc = "done"
    /\ n_writes = 1
    /\ Len(db.items) = Len(items0) + 2
    /\ file.doc.items = db.items
    /\ file # file0

\* the requests of the run so far are one for each query reached
RequestsMatchQueries ==
    InRun =>
        /\ pc = "loop" => n_requests = qi - 1
        /\ pc \in {"items", "crashed"} => n_requests = qi
        /\ pc = "done" => n_requests = Len(search_queries(config))
        /\ all_failed => pc # "crashed" /\ delivered = 0 /\ db.items = items0

\* a request that failed adds nothing and hands over to the next query
FailedRequestMovesOn ==
    \A r \in Responses :
        (TransportError(r) /\ SearchWith(r)) =>
            /\ pc' = "loop"
            /\ qi' = qi + 1
            /\ n_requests' = n_requests + 1
            /\ results' = <<>>
            /\ db' = db
            /\ new_items_count' = new_items_count

\* C19: a run sends one request for each prepared query, in the order of
\* the list and never a second one for the same query; a query whose
\* request fails adds no result and the next query is run; a run that
\* returns has sent as many requests as there are prepared queries,
\* whichever requests failed.
C19_OneRequestPerQuery ==
    [](RequestsMatchQueries) /\ [][FailedRequestMovesOn]_vars

\* a run has returned after requests that failed and requests that
\* delivered results
C19_Witness ==
    /\ pc = "done"
    /\ ~all_failed
    /\ delivered = 2
    /\ n_requests = Len(search_queries(config))
    /\ n_requests > delivered + 1

\* C20: no step of the program removes, moves or changes a stored item:
\* after every step db["items"] begins with the list it was before.
C20_ItemsAppendOnly ==
    [][/\ Len(db.items) <= Len(db.items')
       /\ SubSeq(db.items', 1, Len(db.items)) = db.items]_vars

\* a report was built after a run that added an item to a store that held
\* one; the stored order is not the order of the report
C20_Witness ==
    /\ pc = "done"
    /\ report.returned
    /\ items0 # <<>>
    /\ Len(db.items) > Len(items0)
    /\ SubSeq(db.items, 1, Len(items0)) = items0
    /\ sorted_items(db.items) # db.items

\* C21: when the repair of _clean_content is attempted and fails, because
\* the text has a character above U+00FF or because its Latin-1 bytes are
\* not UTF-8, the result is the noise removal and the whitespace
\* normalisation of the text as it was given.
C21_FailedRepairKeepsText ==
    (/\ cpc = "cleaned"
     /\ LooksMojibake(content)
     /\ ~Latin1Encodable(content) \/ ~Utf8Valid(content, 1))
    => cleaned = strip(re_sub_space(RemoveNoise(1, content)))

\* a text with U+00E9 whose bytes are not UTF-8 has been cleaned: the
\* character is still there, and whitespace was removed
C21_Witness ==
    /\ cpc = "cleaned"
    /\ LooksMojibake(content)
    /\ Latin1Encodable(content)
    /\ ~Utf8Valid(content, 1)
    /\ \E i \in 1..Len(cleaned) : cleaned[i] = 233
    /\ Len(cleaned) < Len(content)
    /\ Len(cleaned) > 1

\* the first n elements of seq, all of them when it has fewer
Take(seq, n) == SubSeq(seq, 1, IF Len(seq) < n THEN Len(seq) ELSE n)

\* seq without the repetitions of an element that occurred before
FirstOccurrences(seq) ==
    LET at == SortedSeq({i \in 1..Len(seq) :
                            \A j \in 1..(i - 1) : seq[j] # seq[i]})
    IN [k \in 1..Len(at) |-> seq[at[k]]]

\* what the target keywords contribute: those found in the text, in the
\* order of the list, 5 at most
FromTargets(full_text) ==
    Take(SelectSeq(target_keywords, LAMBDA kw : In(lower(kw), full_text)), 5)

\* what the capitalised words of the title can add to the keywords found
FromCapitals(ttl, found) ==
    FirstOccurrences(SelectSeq(FindCapWords(ttl),
                               LAMBDA w : Len(w) > 3 /\ ~Member(w, found)))

\* what the tokens of the title can add to the keywords found
FromTokens(ttl, found) ==
    LET words == split(ttl)
        clean == [i \in 1..Len(words) |-> StripNonWord(words[i])]
    IN FirstOccurrences(SelectSeq(clean,
                                  LAMBDA w : Len(w) > 2 /\ ~Member(w, found)))

\* C22: the keywords are the target keywords found, in the order of the
\* target list and 5 at most; then, only when these are fewer than 5, the
\* capitalised words of the title in their order until 5 are reached; then,
\* only when there are still fewer than 5, the tokens of the title in their
\* order until 5 are reached.  No stage moves or replaces what an earlier
\* stage found.
C22_KeywordsInStageOrder ==
    npc = "analyzed" =>
        LET s1 == FromTargets(lower(title \o <<32>> \o text))
            s2 == s1 \o Take(FromCapitals(title, s1), 5 - Len(s1))
            s3 == s2 \o Take(FromTokens(title, s2), 5 - Len(s2))
        IN analysis.keywords = s3

\* an analysis whose keywords come from all three stages: a target keyword,
\* then a capitalised word of the title, then a token of the title that
\* stands before that word in the title
C22_Witness ==
    /\ npc = "analyzed"
    /\ Len(analysis.keywords) = 3
    /\ Member(analysis.keywords[1], target_keywords)
    /\ Member(analysis.keywords[2], FindCapWords(title))
    /\ ~Member(analysis.keywords[2], target_keywords)
    /\ ~Member(analysis.keywords[3], FindCapWords(title))
    /\ ~Member(analysis.keywords[3], target_keywords)
    /\ split(title)[1] = analysis.keywords[3]

\* the positions of s at which sub begins
Occurrences(sub, s) ==
    {i \in 1..(Len(s) - Len(sub) + 1) :
        \A k \in 1..Len(sub) : s[i + k - 1] = sub[k]}

\* what stands between the <li ...> and </li> of every item of a rendered
\* list, in the order of the list
RenderedItems(h) ==
    LET opens == SortedSeq(Occurrences(li_open, h))
        closes == Occurrences(li_close, h)
    IN [k \in 1..Len(opens) |->
           SubSeq(h, opens[k] + Len(li_open),
                  (CHOOSE j \in closes :
                      /\ j > opens[k]
                      /\ \A n \in closes : n > opens[k] => j <= n) - 1)]

\* the sentence as an item shows it: closed by U+3002 when it has no
\* sentence end
Closed(s) == IF s[Len(s)] \in SentenceEnd THEN s ELSE Append(s, 12290)

\* C23 as stated: for every input of at least 10 characters the summary
\* lists exactly 3 sentences.
C23_ExactlyThree ==
    (npc = "summarized" /\ Len(strip(text)) >= 10) =>
        /\ Len(RenderedItems(summary.html)) = 3
        /\ Len(summary.top) = 3

\* C23, amended: for every input that has at least 10 characters once its
\* leading and trailing whitespace is removed, the summary lists the
\* min(3, n) highest-scoring of the n sentences longer than 10 characters
\* of the text that is split (the translation when there is one): exactly 3
\* when there are at least 3, all of them when there are fewer, none when
\* there is none.  Every listed sentence scores at least as high as every
\* sentence left out, and an equal score is settled for the earlier one.
C23_TopThreeOfThoseThereAre ==
    (npc = "summarized" /\ Len(strip(text)) >= 10) =>
        LET n == Len(summary.sentences)
            chosen == {summary.top[k] : k \in 1..Len(summary.top)}
            items == RenderedItems(summary.html)
            m == IF n < 3 THEN n ELSE 3
        IN /\ chosen \subseteq 1..n
           /\ Cardinality(chosen) = m
           /\ Len(summary.top) = m
           /\ Len(items) = m
           /\ \A k \in 1..m :
                  \E i \in chosen : items[k] = Closed(summary.sentences[i])
           /\ \A i \in chosen : \A j \in (1..n) \ chosen :
                  \/ summary.scores[i] > summary.scores[j]
                  \/ summary.scores[i] = summary.scores[j] /\ i < j

\* four sentences were scored and three are listed: the second is left out
\* for a later one that scores higher
C23_Witness ==
    /\ npc = "summarized"
    /\ Len(summary.sentences) = 4
    /\ Len(RenderedItems(summary.html)) = 3
    /\ ~Member(2, summary.top)
    /\ Member(4, summary.top)
    /\ summary.scores[4] > summary.scores[2]

\* the text that _summarize_text splits: the input without its leading and
\* trailing whitespace, or what the translation call left of it
SplitText ==
    IF summary.translate THEN Translated(strip(text), translation)
    ELSE strip(text)

\* the items from the k-th on stand in src in their order, the k-th not
\* before position from; an item stands where its sentence does, with or
\* without the U+3002 that closes it
RECURSIVE InOrderFrom(_, _, _, _)
InOrderFrom(items, k, from, src) ==
    IF k > Len(items) THEN TRUE
    ELSE LET it == items[k]
             at == Occurrences(it, src)
                   \cup (IF it[Len(it)] = 12290
                         THEN Occurrences(SubSeq(it, 1, Len(it) - 1), src)
                         ELSE {})
             later == {p \in at : p >= from}
         IN /\ later # {}
            /\ InOrderFrom(items, k + 1,
                           (CHOOSE p \in later : \A q \in later : p <= q) + 1,
                           src)

\* C24: the sentences of the rendered list stand in the order in which they
\* stand in the text that was split, whatever their scores: the indices of
\* the chosen sentences ascend, item k shows the k-th of them, and the
\* items can be found in the text one after the other.
C24_ListedInTextOrder ==
    (npc = "summarized" /\ ~summary.short) =>
        LET items == RenderedItems(summary.html)
        IN /\ \A k \in 1..(Len(summary.top) - 1) :
                  summary.top[k] < summary.top[k + 1]
           /\ Len(items) = Len(summary.top)
           /\ \A k \in 1..Len(items) :
                  items[k] = Closed(summary.sentences[summary.top[k]])
           /\ InOrderFrom(items, 1, 1, SplitText)

\* three sentences are listed in the order of the text although the second
\* of them scores higher than the first, and the text was not translated
C24_Witness ==
    /\ npc = "summarized"
    /\ ~summary.short
    /\ ~summary.translate
    /\ Len(summary.top) = 3
    /\ summary.scores[summary.top[2]] > summary.scores[summary.top[1]]
    /\ summary.scores[summary.top[3]] < summary.scores[summary.top[2]]
    /\ Len(RenderedItems(summary.html)) = 3

(***************************************************************************)
(* The summary of texts at and beyond the length the translation call is   *)
(* given: one call of _summarize_text on every text of up to MaxLongParts  *)
(* parts and on texts of TranslateLimit to TranslateLimit + MaxExcess      *)
(* characters, with every outcome of the translation call.                 *)
(***************************************************************************)
MaxLongParts == 2
MaxExcess == 1

\* "sales "
LongWord == <<115, 97, 108, 101, 115, 32>>

\* "sales sales sales ...", n characters of it
LongText(n) == [i \in 1..n |-> LongWord[((i - 1) % Len(LongWord)) + 1]]

LongTexts ==
    Joined(MaxLongParts, <<32>>)
    \cup {LongText(TranslateLimit + e) : e \in 0..MaxExcess}

SummarizeLongInit ==
    /\ config_file = [kind |-> "missing", competitors |-> <<>>]
    /\ file = [kind |-> "missing", doc |-> EmptyDb]
    /\ file0 = file
    /\ pc = "ready"
    /\ config = <<>>
    /\ db = EmptyDb
    /\ now = 0
    /\ last_add = NoAdd
    /\ RunInit
    /\ SearchIdle
    /\ CleanerIdle
    /\ title = <<>>
    /\ text \in LongTexts
    /\ translation = NoTranslation
    /\ summary = NoSummary
    /\ analysis = NoAnalysis
    /\ npc = "text"
    /\ report = NoReport
    /\ FetchIdle

SpecSummarizeLong == SummarizeLongInit /\ [][SummarizeNext]_vars

\* C25 as stated: when the translation call fails, _summarize_text returns
\* the summary built from the original text: the list of the chosen
\* sentences of the input without its leading and trailing whitespace.
C25_FailedTranslationKeepsText ==
    (npc = "summarized" /\ summary.translate /\ translation.raised) =>
        LET original == Sentences(strip(text))
            scores == [i \in 1..Len(original) |-> Score(i, original[i])]
        IN summary.html
               = ul_open \o ListItems(original, TopItems(scores), 1)
                         \o ul_close

(***************************************************************************)
(* fetch_data alone: one call of DailyNewsGenerator.fetch_data in every    *)
(* environment, with every outcome of the collections it calls.            *)
(***************************************************************************)
MaxLeaderResults == 2
MaxNewCars == 2
MaxIntel == 1

\* TAVILY_API_KEY and RUN_TAVILY_COLLECTION: not set, empty, set
Environments ==
    {[key |-> k, run |-> r] : k \in {Absent, "", "tvly-key"},
                              r \in {Absent, "0", "1"}}

\* collect_kol_content and collect_new_car_launches return their results,
\* or _save_diagnostics raises on the way out
CollectOutcomes(max) ==
    {[raised |-> TRUE, results |-> NoList]}
    \cup {[raised |-> FALSE, results |-> List("live", n)] : n \in 0..max}

\* collect_smart_glass_intel returns the lists of the report, or, after an
\* exception, two empty lists and the error
IntelOutcomes ==
    {[defined |-> TRUE, competitors |-> List("live", c),
      news |-> List("live", n), error |-> FALSE] : c, n \in 0..MaxIntel}
    \cup {[defined |-> TRUE, competitors |-> List("live", 0),
           news |-> List("live", 0), error |-> TRUE]}

FetchInit ==
    /\ config_file = [kind |-> "missing", competitors |-> <<>>]
    /\ file = [kind |-> "missing", doc |-> EmptyDb]
    /\ file0 = file
    /\ pc = "ready"
    /\ config = <<>>
    /\ db = EmptyDb
    /\ now = 0
    /\ last_add = NoAdd
    /\ RunInit
    /\ SearchIdle
    /\ CleanerIdle
    /\ NewsIdle
    /\ report = NoReport
    /\ env \in Environments
    /\ fpc = "start"
    /\ data = NoData
    /\ calls = <<>>
    /\ ferr = None
    /\ live = NoLive
    /\ leader_data = NoLeaderData

\* what no step of fetch_data touches
other_vars ==
    <<config_file, file, file0, pc, config, db, now, last_add, run_vars,
      search_vars, cleaner_vars, news_vars, report>>

\* the test of line 617
KeyAndCollection(e) == Truthy(e.key) /\ CollectionOn(e.run)

\* self.data = self.client.get_all_data()
GetAllData ==
    /\ fpc = "start"
    /\ \E l \in IF CollectionOn(env.run) THEN LiveOutcomes ELSE {NoLive} :
         LET r == get_all_data(env.run, l)
         IN /\ live' = l
            /\ IF r.raised # None
               THEN /\ fpc' = "raised"
                    /\ ferr' = r.raised
                    /\ data' = data
               ELSE /\ fpc' = IF KeyAndCollection(env) THEN "kol" ELSE "mock"
                    /\ ferr' = ferr
                    /\ data' = r.data
    /\ calls' = Append(calls, "get_all_data")
    /\ UNCHANGED <<other_vars, env, leader_data>>

\* a fetch_data that goes on to the other collections whatever
\* collect_kol_content returned
CollectKolContinuing ==
    /\ fpc = "kol"
    /\ \E out \in CollectOutcomes(MaxLeaderResults) :
         IF out.raised
         THEN /\ fpc' = "raised"
              /\ ferr' = "OSError"
              /\ UNCHANGED <<data, leader_data>>
         ELSE /\ leader_data' = [returned |-> TRUE, results |-> out.results]
              /\ data' = [data EXCEPT
                            !.industry_leaders.leaders = out.results,
                            !.industry_leaders.total_statements =
                                out.results.n]
              /\ fpc' = "new_cars"
              /\ ferr' = ferr
    /\ calls' = Append(calls, "collect_kol_content")
    /\ UNCHANGED <<other_vars, env, live>>

\* leader_data = self.collect_kol_content(...), then the test of its
\* results: with results, the leaders of self.data are replaced (623-625)
CollectKol ==
    /\ fpc = "kol"
    /\ \E out \in CollectOutcomes(MaxLeaderResults) :
         IF out.raised
         THEN /\ fpc' = "raised"
              /\ ferr' = "OSError"
              /\ UNCHANGED <<data, leader_data>>
         ELSE /\ leader_data' = [returned |-> TRUE, results |-> out.results]
              /\ ferr' = ferr
              /\ IF out.results.n > 0
                 THEN /\ data' = [data EXCEPT
                                    !.industry_leaders.leaders = out.results,
                                    !.industry_leaders.total_statements =
                                        out.results.n]
                      /\ fpc' = "new_cars"
                 ELSE /\ data' = data
                      /\ fpc' = "pause"
    /\ calls' = Append(calls, "collect_kol_content")
    /\ UNCHANGED <<other_vars, env, live>>

\* new_cars = self.collect_new_car_launches(days=30); an empty list leaves
\* self.data as it is
CollectNewCars ==
    /\ fpc = "new_cars"
    /\ \E out \in CollectOutcomes(MaxNewCars) :
         IF out.raised
         THEN /\ fpc' = "raised"
              /\ ferr' = "OSError"
              /\ data' = data
         ELSE /\ fpc' = "smart_glass"
              /\ ferr' = ferr
              /\ data' = IF out.results.n > 0
                         THEN [data EXCEPT
                                 !.new_car_launches.new_launches = out.results,
                                 !.new_car_launches.total_count =
                                     out.results.n]
                         ELSE data
    /\ calls' = Append(calls, "collect_new_car_launches")
    /\ UNCHANGED <<other_vars, env, live, leader_data>>

\* self.data["smart_glass_intel"] = self.collect_smart_glass_intel()
CollectSmartGlass ==
    /\ fpc = "smart_glass"
    /\ \E out \in IntelOutcomes :
         data' = [data EXCEPT !.smart_glass_intel = out]
    /\ fpc' = "total"
    /\ calls' = Append(calls, "collect_smart_glass_intel")
    /\ UNCHANGED <<other_vars, env, ferr, live, leader_data>>

\* no leader results: the line for logs/execution_paused.log is written,
\* or open() raises because there is no logs directory
Pause ==
    /\ fpc = "pause"
    /\ \E written \in BOOLEAN :
         IF written THEN fpc' = "total" /\ ferr' = ferr
         ELSE fpc' = "raised" /\ ferr' = "FileNotFoundError"
    /\ UNCHANGED <<other_vars, env, data, calls, live, leader_data>>

\* no key or no collection: the empty lists for the smart-glass section
UseMock ==
    /\ fpc = "mock"
    /\ data' = [data EXCEPT !.smart_glass_intel =
                   [defined |-> TRUE, competitors |-> List("mock", 0),
                    news |-> List("mock", 0), error |-> FALSE]]
    /\ fpc' = "total"
    /\ UNCHANGED <<other_vars, env, calls, ferr, live, leader_data>>

\* total_points: self.data["smart_glass_intel"] raises KeyError when the
\* key was never set
Total ==
    /\ fpc = "total"
    /\ IF data.smart_glass_intel.defined
       THEN /\ data' = [data EXCEPT !.total_data_points = total_points(data)]
            /\ fpc' = "snapshot"
            /\ ferr' = ferr
       ELSE /\ data' = data
            /\ fpc' = "raised"
            /\ ferr' = "KeyError"
    /\ UNCHANGED <<other_vars, env, calls, live, leader_data>>

\* self._save_data_snapshot(), which catches the failure of its write
Snapshot ==
    /\ fpc = "snapshot"
    /\ fpc' = "done"
    /\ calls' = Append(calls, "_save_data_snapshot")
    /\ UNCHANGED <<other_vars, env, data, ferr, live, leader_data>>

FetchNext ==
    \/ GetAllData
    \/ CollectKol
    \/ CollectNewCars
    \/ CollectSmartGlass
    \/ Pause
    \/ UseMock
    \/ Total
    \/ Snapshot

SpecFetch == FetchInit /\ [][FetchNext]_vars

\* the positions of the history at which fetch_data called f
CalledAt(f) == {i \in 1..Len(calls) : calls[i] = f}

C27_SmartGlassDefinedBeforeTotal ==
    /\ fpc = "total" => data.smart_glass_intel.defined
    /\ ferr # "KeyError"

\* C28 as stated: when collection is switched off or the live search
\* raises, get_sales_rankings returns the 8 built-in weekly and the 8
\* built-in monthly entries, and no error leaves it.
C28_FallsBackToMockRankings ==
    (/\ Len(calls) >= 1
     /\ env.run = "0" \/ live.raised)
    => /\ ferr # "NameError"
       /\ fpc # "raised" =>
              /\ data.sales_rankings.weekly = weekly_data
              /\ data.sales_rankings.monthly = monthly_data

\* every item the run has added carries the category, the competitor and
\* the tag of the first query of the run that brought its URL
StoredAsFirstQuery ==
    InRun =>
        \A i \in RunAdded :
            \E e \in seen :
                /\ e.url = db.items[i].url
                /\ db.items[i].category = e.cat
                /\ db.items[i].competitor = e.comp
                /\ db.items[i].tags = <<e.tag>>

\* a pass of the loop leaves every stored item as it is, and when a
\* competitor query brings a URL that the store did not hold at the start
\* of the run, the store holds it as 'Competitor' afterwards
CompetitorResultStoredAsCompetitor ==
    (pc = "items" /\ results # <<>> /\ results' = Tail(results)) =>
        LET u == Get(Head(results).url)
            query_obj == search_queries(config)[qi]
        IN /\ Len(db'.items) >= Len(db.items)
           /\ \A i \in 1..Len(db.items) : db'.items[i] = db.items[i]
           /\ (/\ Truthy(u)
               /\ query_obj.cat = "Competitor"
               /\ WithUrl(items0, u) = {})
              => \E i \in (Len(items0) + 1)..Len(db'.items) :
                     /\ db'.items[i].url = u
                     /\ db'.items[i].category = "Competitor"

\* the competitor queries stand before the industry queries
CompetitorQueriesFirst ==
    LET queries == search_queries(config)
        industry == {j \in 1..Len(queries) : queries[j].cat = "Industry"}
    IN \A i \in 1..Len(queries) :
           queries[i].cat = "Competitor" => \A j \in industry : i < j

\* C29: within a run the first query that brings a URL decides how it is
\* stored: a later query that brings it again with another category,
\* competitor or tag changes nothing of the stored item.  The competitor
\* queries run before the industry queries, and a URL new to the store that
\* a competitor query brings is held as 'Competitor' from then on, whatever
\* industry query brings it again.
C29_FirstQueryDecides ==
    /\ [](StoredAsFirstQuery /\ CompetitorQueriesFirst)
    /\ [][CompetitorResultStoredAsCompetitor]_vars

\* the run is over: a URL that a competitor query brought first and an
\* industry query brought again is stored once, as 'Competitor'
C29_Witness ==
    /\ pc = "done"
    /\ \E e \in seen :
           /\ e.again
           /\ e.cat = "Competitor"
           /\ WithUrl(items0, e.url) = {}
           /\ Cardinality(WithUrl(db.items, e.url)) = 1
           /\ \A i \in WithUrl(db.items, e.url) :
                  /\ i \in RunAdded
                  /\ db.items[i].category = "Competitor"
                  /\ db.items[i].competitor # None

\* the URLs the run has been through that the store did not hold when the
\* run began
NewUrls == {e.url : e \in {x \in seen : WithUrl(items0, x.url) = {}}}

\* C30: the count run_daily_check returns is the number of items by which
\* db['items'] has grown in the run, and the number of distinct non-empty
\* URLs among the results of the run that the store did not hold at its
\* start; while the run is on, the same holds of new_items_count.
C30_CountIsGrowthIsNewUrls ==
    /\ (pc \in {"loop", "items", "crashed"} \/ pc = "done") =>
           /\ new_items_count = Len(db.items) - Len(items0)
           /\ new_items_count = Cardinality(NewUrls)
    /\ pc = "done" =>
           /\ ret = Len(db.items) - Len(items0)
           /\ ret = Cardinality(NewUrls)

\* a run that returned 1 after two results with the same URL, new to a
\* store that held an item already
C30_Witness ==
    /\ pc = "done"
    /\ ret = 1
    /\ delivered = 2
    /\ items0 # <<>>
    /\ \E e \in seen : e.again /\ WithUrl(items0, e.url) = {}

=============================================================================
